---- MODULE Spec2Model ----
(***************************************************************************)
(* A model of pencil-actions: the ServiceRenderer of                       *)
(* src/src/renderers/service.ts (batch-and-cache rendering: one job per    *)
(* .pen file, submitted once and polled with capped exponential backoff)   *)
(* and the PR comment publisher of src/src/github/comments.ts.             *)
(*                                                                         *)
(* Time is kept as clock differences, the only way the code reads it:      *)
(*   call[c].elapsed  is  Date.now() - startTime           (service.ts:313)*)
(*   tokenAge         is  Date.now() - this.tokenAcquiredAt (service.ts:223)*)
(* Both saturate just above the threshold they are compared with.          *)
(***************************************************************************)
EXTENDS Integers, Sequences, FiniteSets, TLC

\* ------------------------------------------------------------ constants
POLL_INITIAL_INTERVAL_MS == 2000
POLL_MULTIPLIER_NUM == 3
POLL_MULTIPLIER_DEN == 2
POLL_MAX_INTERVAL_MS == 15000
POLL_TIMEOUT_MS == 600000
TOKEN_REFRESH_MS == 240000

\* ------------------------------------------------------------ bounds
\* renderFrame calls that may be in flight at once on one renderer
NumCalls == 2
\* pauses (late answers, a busy caller) in one run
MaxDelays == 1
\* cleanup() calls in the life of one renderer object
MaxCleanups == 1
\* non-terminal poll answers per job where the renderer is driven by concurrent callers
MaxPending == 1

\* postComment calls that may be in flight at once on one pull request
NumRuns == 2
\* comments on the pull request
MaxComments == 3

Paths == {"a.pen", "b.pen"}
Frames == {"f1", "f2"}
Calls == 1..NumCalls
Runs == 1..NumRuns
\* the comment-id input: absent, or a namespace
CommentIds == {"undefined", "diff"}
Latency == 1000

Min(a, b) == IF a <= b THEN a ELSE b

\* clocks saturate past the value they are compared with
ElapsedCap == POLL_TIMEOUT_MS + POLL_MAX_INTERVAL_MS
TokenAgeCap == TOKEN_REFRESH_MS
\* an answer that stalls for longer than the whole poll budget
Stall == POLL_TIMEOUT_MS + 1

VARIABLES
  phase,      \* lifecycle of the renderer object: constructed, ready, initFailed, cleaned
  apiKey,     \* this.apiKey is set (paid tier) or not (OIDC)
  authToken,  \* this.authToken: "undefined", "key" or "oidc"
  tokenAge,   \* Date.now() - this.tokenAcquiredAt, saturating at TokenAgeCap
  sentFiles,  \* this.sentFiles
  cache,      \* this.cache: penFilePath -> set of cached frame ids
  call,       \* the renderFrame calls in flight: position and locals of each
  obs,        \* per call: what it sent and saw (history, read by the properties only)
  submits,    \* per path: POSTs to /api/v1/screenshot since the last cleanup
  failed,     \* paths whose job ended in failure since the last cleanup
  delays,     \* pauses so far
  cleanups,   \* cleanup() calls so far
  comments,   \* the comments of the pull request, in ascending creation order
  nextId,     \* the id GitHub gives the next comment
  run,        \* the postComment calls in flight: position and locals of each
  hist,       \* what the postComment calls so far were given and returned
  main        \* the run of the action (main.ts): position, inputs, locals, outputs

rvars == <<phase, apiKey, authToken, tokenAge, sentFiles, cache, call, obs,
           submits, failed, delays, cleanups>>

cvars == <<comments, nextId, run, hist>>

mvars == <<main>>

vars == <<rvars, cvars, mvars>>

IdleCall == [pc |-> "idle", path |-> "-", frame |-> "-", interval |-> 0,
             elapsed |-> 0, sleepLeft |-> 0, cont |-> "-", result |-> "-"]

NoObs == [reqs |-> {}, polls |-> 0, sleeps |-> 0, checkElapsed |-> 0,
          pollElapsed |-> 0, cachedAtStart |-> FALSE, completedAt |-> 0,
          served |-> {}, allPending |-> TRUE, timeouts |-> 0, bearer |-> {},
          refused |-> 0, empty |-> FALSE]

IdleRun == [pc |-> "idle", mode |-> "-", commentId |-> "-", body |-> "-",
            page |-> 0, target |-> 0, ret |-> 0, markedAtStart |-> FALSE,
            created |-> FALSE, listFailed |-> FALSE]

\* no file read yet
NoContent == [kind |-> "-", childrenKind |-> "absent", children |-> << >>]

\* no diff result yet
NoDiff == [added |-> << >>, modified |-> << >>, removed |-> << >>, unchanged |-> << >>]

\* the outputs screenshots-path, changed-files and frames-rendered before setOutputs
NoOutputs ==
  [set |-> FALSE, screenshotsPath |-> "", changedFiles |-> << >>, framesRendered |-> 0]

\* the run before run() is entered; commentIdOut is 0
\* until core.setOutput('comment-id'); log, errs, notFound, requested, diffed, earlier,
\* earlierId, edited, published (the id postComment returned to this run), counted
\* (what each document added to totalFramesRendered) and rendered (frames whose
\* render succeeded) are history, read by the properties only; base, head and diff
\* are the two frame indexes of a document and their diff result; content is the
\* text of a .pen file and outcome what processing it gave
IdleMain ==
  [pc |-> "start", isPullRequest |-> TRUE, inputsValid |-> TRUE,
   commentMode |-> "-", namespace |-> "-", reviewMode |-> "-", diffMode |-> FALSE,
   service |-> FALSE, includeDeleted |-> FALSE, maxFramesPerFile |-> 0,
   changedFiles |-> << >>, i |-> 0, pending |-> << >>, frameResults |-> << >>,
   asAdded |-> FALSE, fileResults |-> << >>, totalFramesRendered |-> 0,
   setFailed |-> FALSE, cause |-> "-", thrown |-> FALSE, outputs |-> NoOutputs,
   commentIdOut |-> 0, log |-> {}, errs |-> {}, notFound |-> {}, requested |-> {},
   diffed |-> {}, earlier |-> "-", earlierId |-> 0, edited |-> 0,
   published |-> 0, counted |-> [p \in Paths |-> 0], rendered |-> 0,
   base |-> << >>, head |-> << >>, diff |-> NoDiff,
   content |-> NoContent, outcome |-> [kind |-> "-", frames |-> << >>]]

\* a comment somebody wrote: it carries no marker
HumanBody == [markers |-> {}, text |-> "human"]

\* ------------------------------------------------------------ pure pieces

\* service.ts:359  interval = Math.min(interval * POLL_MULTIPLIER, POLL_MAX_INTERVAL_MS)
\* (every value reached below the cap is a whole number: 2000, 3000, 4500, 6750, 10125)
NextIntervalUncapped(interval) ==
  (interval * POLL_MULTIPLIER_NUM) \div POLL_MULTIPLIER_DEN

NextInterval(interval) ==
  Min((interval * POLL_MULTIPLIER_NUM) \div POLL_MULTIPLIER_DEN, POLL_MAX_INTERVAL_MS)

\* service.ts:314  if (elapsed > POLL_TIMEOUT_MS) throw
TimedOutNever(elapsed) == FALSE

TimedOut(elapsed) == elapsed > POLL_TIMEOUT_MS

\* the token is taken for fresh whatever its age
NeedsRefreshNever == FALSE

\* service.ts:222-223  ensureFreshToken refreshes only an OIDC token of 4 minutes or more
NeedsRefresh == ~apiKey /\ tokenAge >= TOKEN_REFRESH_MS

\* a cached result without screenshots is taken for a file not sent yet
NeedsFetchEmpty(p) == p \notin sentFiles \/ (p \in DOMAIN cache /\ cache[p] = {})

\* service.ts:150  if (!this.sentFiles.has(penFilePath))
NeedsFetch(p) == p \notin sentFiles

\* service.ts:155-156  this.cache.get(penFilePath)?.get(frame.id)
Cached(p, f) == p \in DOMAIN cache /\ f \in cache[p]

Polling(c) ==
  \/ call[c].pc \in {"sleeping", "polling"}
  \/ call[c].pc = "refreshing" /\ call[c].cont = "poll"

AwaitingNetwork(c) == call[c].pc \in {"refreshing", "submitting", "polling", "downloading"}

\* ------------------------------------------------------------ renderer

\* a pull request whose comments so far are list, with no postComment call in flight
PullRequest(list) ==
  /\ comments = list
  /\ nextId = Len(comments) + 1
  /\ run = [r \in Runs |-> IdleRun]
  /\ hist = [modes |-> {}, ids |-> {}, returned |-> {}, listFailed |-> FALSE]

\* service.ts:80-102  the renderer as constructed
ConstructedRenderer ==
  /\ phase = "constructed"
  /\ apiKey \in BOOLEAN
  /\ authToken = "undefined"
  /\ tokenAge = TokenAgeCap
  /\ sentFiles = {}
  /\ cache = [p \in {} |-> {}]
  /\ call = [c \in Calls |-> IdleCall]
  /\ obs = [c \in Calls |-> NoObs]
  /\ submits = [p \in Paths |-> 0]
  /\ failed = {}
  /\ delays = 0
  /\ cleanups = 0

\* the renderer as constructed, and the pull request before the action has published
Constructed ==
  /\ ConstructedRenderer
  /\ PullRequest(<<[id |-> 1, body |-> HumanBody]>>)

Init == Constructed /\ main = IdleMain

\* service.ts:105-132  initialize(): API key or OIDC token, then the health check
Initialize(oidcOk, health) ==
  /\ UNCHANGED cvars
  /\ phase \in {"constructed", "cleaned"}
  /\ \A c \in Calls : call[c].pc = "idle"
  /\ IF apiKey
     THEN /\ authToken' = "key"
          /\ tokenAge' = tokenAge
          /\ phase' = IF health = "unreachable" THEN "initFailed" ELSE "ready"
     ELSE IF oidcOk
          THEN /\ authToken' = "oidc"
               /\ tokenAge' = 0
               /\ phase' = IF health = "unreachable" THEN "initFailed" ELSE "ready"
          ELSE /\ phase' = "initFailed"
               /\ UNCHANGED <<authToken, tokenAge>>
  /\ UNCHANGED <<apiKey, sentFiles, cache, call, obs, submits, failed, delays, cleanups>>

\* service.ts:182-188  the catch of renderFrame turns every error into an error result
\* (the locals of pollForCompletion are gone once it has returned or thrown)
Rethrown(rec, msg) ==
  [rec EXCEPT !.pc = "thrown", !.result = "-",
              !.interval = 0, !.elapsed = 0, !.sleepLeft = 0, !.cont = "-"]

Caught(rec, msg) ==
  [rec EXCEPT !.pc = "done", !.result = msg,
              !.interval = 0, !.elapsed = 0, !.sleepLeft = 0, !.cont = "-"]

\* service.ts:154-181  look the frame up in the cache; a hit downloads its image
Lookup(c, rec, o, hit) ==
  IF hit
  THEN /\ call' = [call EXCEPT ![c] = [rec EXCEPT !.pc = "downloading",
                 !.interval = 0, !.elapsed = 0, !.sleepLeft = 0, !.cont = "-"]]
       /\ obs' = [obs EXCEPT ![c] = [o EXCEPT !.reqs = @ \cup {"image"}]]
  ELSE /\ call' = [call EXCEPT ![c] = [rec EXCEPT !.pc = "done", !.result = "notFound",
                 !.interval = 0, !.elapsed = 0, !.sleepLeft = 0, !.cont = "-"]]
       /\ obs' = [obs EXCEPT ![c] = o]

\* service.ts:240-254  POST /api/v1/screenshot with the current bearer token
IssueSubmit(c, rec, o, token) ==
  /\ call' = [call EXCEPT ![c] = [rec EXCEPT !.pc = "submitting"]]
  /\ obs' = [obs EXCEPT ![c] = [o EXCEPT !.reqs = @ \cup {"submit"},
                                          !.bearer = @ \cup {token}]]
  /\ submits' = [submits EXCEPT ![rec.path] = @ + 1]

\* service.ts:323-327  GET /api/v1/jobs/:jobId with the current bearer token
IssuePoll(c, rec, o, token) ==
  /\ call' = [call EXCEPT ![c] = [rec EXCEPT !.pc = "polling"]]
  /\ obs' = [obs EXCEPT ![c] = [o EXCEPT !.reqs = @ \cup {"poll"},
                                          !.polls = @ + 1,
                                          !.pollElapsed = rec.elapsed,
                                          !.bearer = @ \cup {token}]]

\* service.ts:200-204  refreshOidcToken asks GitHub for a token
IssueRefresh(c, rec, o, cont) ==
  /\ call' = [call EXCEPT ![c] = [rec EXCEPT !.pc = "refreshing", !.cont = cont]]
  /\ obs' = [obs EXCEPT ![c] = [o EXCEPT !.reqs = @ \cup {"oidc"}]]

\* a job is not recorded as sent until its submit request has been made
FetchAllFramesUnmarked(c, rec, o, readOk) ==
  IF ~readOk
  THEN /\ sentFiles' = sentFiles \cup {rec.path}
       /\ call' = [call EXCEPT ![c] = Caught(rec, "readFile")]
       /\ obs' = [obs EXCEPT ![c] = o]
       /\ failed' = failed \cup {rec.path}
       /\ UNCHANGED submits
  ELSE /\ sentFiles' = sentFiles
       /\ UNCHANGED failed
       /\ IF NeedsRefresh
          THEN IssueRefresh(c, rec, o, "submit") /\ UNCHANGED submits
          ELSE IssueSubmit(c, rec, o, authToken)

\* service.ts:231-254  fetchAllFrames up to the submit request
FetchAllFrames(c, rec, o, readOk) ==
  /\ sentFiles' = sentFiles \cup {rec.path}
  /\ IF ~readOk
     THEN /\ call' = [call EXCEPT ![c] = Caught(rec, "readFile")]
          /\ obs' = [obs EXCEPT ![c] = o]
          /\ failed' = failed \cup {rec.path}
          /\ UNCHANGED submits
     ELSE /\ UNCHANGED failed
          /\ IF NeedsRefresh
             THEN IssueRefresh(c, rec, o, "submit") /\ UNCHANGED submits
             ELSE IssueSubmit(c, rec, o, authToken)

\* service.ts:143-164  renderFrame is called: fetch the file's frames unless already sent
RenderFrame(c, p, f, readOk) ==
  /\ UNCHANGED cvars
  /\ phase \in {"ready", "cleaned"}
  /\ call[c].pc = "idle"
  /\ \A d \in Calls : d < c => call[d].pc # "idle"
  /\ LET rec == [IdleCall EXCEPT !.path = p, !.frame = f]
         o == [NoObs EXCEPT !.cachedAtStart = (p \in DOMAIN cache)]
     IN IF NeedsFetch(p)
        THEN FetchAllFrames(c, rec, o, readOk)
        ELSE /\ Lookup(c, rec, o, Cached(p, f))
             /\ UNCHANGED <<sentFiles, submits, failed>>
  /\ UNCHANGED <<phase, apiKey, authToken, tokenAge, cache, delays, cleanups>>

\* an error thrown inside fetchAllFrames: the job of this path has failed
Throw(c, rec, o, msg) ==
  /\ call' = [call EXCEPT ![c] = Caught(rec, msg)]
  /\ obs' = [obs EXCEPT ![c] = o]
  /\ failed' = failed \cup {rec.path}

\* the budget check ends the loop without raising the timeout error
PollLoopTopBreaks(c, rec, o) ==
  IF TimedOut(rec.elapsed)
  THEN Throw(c, rec, o, "noResult")
  ELSE /\ call' = [call EXCEPT ![c] = [rec EXCEPT !.pc = "sleeping",
                                                   !.sleepLeft = rec.interval]]
       /\ obs' = [obs EXCEPT ![c] = [o EXCEPT !.sleeps = @ + 1,
                                               !.checkElapsed = rec.elapsed]]
       /\ UNCHANGED failed

\* service.ts:312-318  top of the poll loop: the budget check, then sleep(interval)
PollLoopTop(c, rec, o) ==
  IF TimedOut(rec.elapsed)
  THEN Throw(c, rec, [o EXCEPT !.timeouts = @ + 1], "timeout")
  ELSE /\ call' = [call EXCEPT ![c] = [rec EXCEPT !.pc = "sleeping",
                                                   !.sleepLeft = rec.interval]]
       /\ obs' = [obs EXCEPT ![c] = [o EXCEPT !.sleeps = @ + 1,
                                               !.checkElapsed = rec.elapsed]]
       /\ UNCHANGED failed

\* service.ts:203-213  the OIDC token request is answered
RefreshResponse(c, ok) ==
  /\ UNCHANGED cvars
  /\ call[c].pc = "refreshing"
  /\ IF ok
     THEN /\ authToken' = "oidc"
          /\ tokenAge' = 0
          /\ UNCHANGED failed
          /\ IF call[c].cont = "submit"
             THEN IssueSubmit(c, call[c], obs[c], "oidc")
             ELSE IssuePoll(c, call[c], obs[c], "oidc") /\ UNCHANGED submits
     ELSE /\ Throw(c, call[c], obs[c], "oidc")
          /\ UNCHANGED <<authToken, tokenAge, submits>>
  /\ UNCHANGED <<phase, apiKey, sentFiles, cache, delays, cleanups>>

\* service.ts:256-275, 307-318  the submit request is answered
SubmitResponse(c, outcome) ==
  /\ UNCHANGED cvars
  /\ call[c].pc = "submitting"
  /\ IF outcome = "ok"
     THEN PollLoopTop(c, [call[c] EXCEPT !.elapsed = 0,
                                         !.interval = POLL_INITIAL_INTERVAL_MS], obs[c])
     ELSE Throw(c, call[c], obs[c], IF outcome = "notok" THEN "httpSubmit" ELSE "network")
  /\ UNCHANGED <<phase, apiKey, authToken, tokenAge, sentFiles, cache, submits, delays, cleanups>>

\* service.ts:318-327  sleep(interval) is over: ensureFreshToken, then the poll request
TimerFires(c) ==
  /\ UNCHANGED cvars
  /\ call[c].pc = "sleeping"
  /\ call[c].sleepLeft = 0
  /\ IF NeedsRefresh
     THEN IssueRefresh(c, call[c], obs[c], "poll")
     ELSE IssuePoll(c, call[c], obs[c], authToken)
  /\ UNCHANGED <<phase, apiKey, authToken, tokenAge, sentFiles, cache, submits,
                 failed, delays, cleanups>>

PollAnswers ==
  {[ok |-> FALSE, status |-> "-", result |-> FALSE, screenshots |-> {}]}
  \cup {[ok |-> TRUE, status |-> s, result |-> FALSE, screenshots |-> {}] :
          s \in {"queued", "processing", "completed", "failed"}}
  \cup {[ok |-> TRUE, status |-> "completed", result |-> TRUE, screenshots |-> S] :
          S \in SUBSET Frames}

\* the completed status is not recognised: the job is polled on
CompletedIgnored(c, rec, o, resp) ==
  /\ PollLoopTop(c, [rec EXCEPT !.interval = NextInterval(@)], o)
  /\ UNCHANGED cache

\* a completed status without a result is returned as a result without screenshots
CompletedEmpty(c, rec, o, resp) ==
  /\ cache' = [p \in DOMAIN cache \cup {rec.path} |->
                 IF p = rec.path THEN resp.screenshots ELSE cache[p]]
  /\ Lookup(c, rec, o, rec.frame \in resp.screenshots)
  /\ UNCHANGED failed

\* service.ts:345-352  a completed status returns status.result
\* service.ts:277-287  and fetchAllFrames caches its screenshots under the path
Completed(c, rec, o, resp) ==
  IF ~resp.result
  THEN Throw(c, rec, o, "noResult") /\ UNCHANGED cache
  ELSE /\ cache' = [p \in DOMAIN cache \cup {rec.path} |->
                      IF p = rec.path THEN resp.screenshots ELSE cache[p]]
       /\ Lookup(c, rec, o, rec.frame \in resp.screenshots)
       /\ UNCHANGED failed

\* a poll request that got a non-success answer is made again after the next sleep
OnPollAnswerRetries(c, rec, o, resp) ==
  IF resp.ok /\ resp.status = "completed"
  THEN Completed(c, rec, o, resp)
  ELSE IF resp.ok /\ resp.status = "failed"
  THEN Throw(c, rec, o, "jobFailed") /\ UNCHANGED cache
  ELSE /\ PollLoopTop(c, [rec EXCEPT !.interval = NextInterval(@)], o)
       /\ UNCHANGED cache

\* service.ts:329-360  what pollForCompletion does with one answer
OnPollAnswer(c, rec, o, resp) ==
  IF ~resp.ok
  THEN Throw(c, rec, o, "httpPoll") /\ UNCHANGED cache
  ELSE IF resp.status = "completed"
  THEN Completed(c, rec, o, resp)
  ELSE IF resp.status = "failed"
  THEN Throw(c, rec, o, "jobFailed") /\ UNCHANGED cache
  ELSE /\ PollLoopTop(c, [rec EXCEPT !.interval = NextInterval(@)], o)
       /\ UNCHANGED cache

\* the history of a call after the service has sent it one more poll answer
Seen(o, resp) ==
  [o EXCEPT
     !.allPending = @ /\ resp.ok /\ resp.status \in {"queued", "processing"},
     !.refused = IF resp.ok THEN @ ELSE @ + 1,
     !.empty = @ \/ (resp.ok /\ resp.status = "completed" /\ ~resp.result),
     !.completedAt = IF resp.ok /\ resp.status = "completed" /\ resp.result
                     THEN o.polls ELSE @,
     !.served = IF resp.ok /\ resp.status = "completed" /\ resp.result
                THEN resp.screenshots ELSE @]

\* service.ts:323-333  the poll request is answered
PollResponse(c, resp) ==
  /\ UNCHANGED cvars
  /\ call[c].pc = "polling"
  /\ OnPollAnswer(c, call[c], Seen(obs[c], resp), resp)
  /\ UNCHANGED <<phase, apiKey, authToken, tokenAge, sentFiles, submits, delays, cleanups>>

\* service.ts:172-188  the image download is answered, the file is written
ImageResponse(c, outcome) ==
  /\ UNCHANGED cvars
  /\ call[c].pc = "downloading"
  /\ call' = [call EXCEPT ![c] =
       IF outcome = "ok" THEN [@ EXCEPT !.pc = "done", !.result = "success"]
       ELSE IF outcome = "notok" THEN [@ EXCEPT !.pc = "done", !.result = "downloadFailed"]
       ELSE Caught(@, outcome)]
  /\ UNCHANGED <<phase, apiKey, authToken, tokenAge, sentFiles, cache, obs, submits,
                 failed, delays, cleanups>>

\* the caller takes the result of renderFrame
Return(c) ==
  /\ UNCHANGED cvars
  /\ call[c].pc \in {"done", "thrown"}
  /\ call' = [call EXCEPT ![c] = IdleCall]
  /\ obs' = [obs EXCEPT ![c] = NoObs]
  /\ UNCHANGED <<phase, apiKey, authToken, tokenAge, sentFiles, cache, submits,
                 failed, delays, cleanups>>

\* service.ts:191-195  cleanup()
Cleanup ==
  /\ UNCHANGED cvars
  /\ phase = "ready"
  /\ cleanups < MaxCleanups
  /\ \A c \in Calls : call[c].pc = "idle"
  /\ cache' = [p \in {} |-> {}]
  /\ sentFiles' = {}
  /\ authToken' = "undefined"
  /\ phase' = "cleaned"
  /\ submits' = [p \in Paths |-> 0]
  /\ failed' = {}
  /\ cleanups' = cleanups + 1
  /\ UNCHANGED <<apiKey, tokenAge, call, obs, delays>>

\* d milliseconds pass: every clock difference the code reads grows by d
Advance(d) ==
  /\ call' = [c \in Calls |->
       [call[c] EXCEPT
          !.elapsed = IF Polling(c) THEN Min(@ + d, ElapsedCap) ELSE @,
          !.sleepLeft = IF call[c].pc = "sleeping" THEN @ - d ELSE @]]
  /\ tokenAge' = Min(tokenAge + d, TokenAgeCap)

Sleepers == {c \in Calls : call[c].pc = "sleeping"}

\* service.ts:364-366  time passes until the next setTimeout of sleep() is due
Tick ==
  /\ UNCHANGED cvars
  /\ Sleepers # {}
  /\ \A c \in Sleepers : call[c].sleepLeft > 0
  /\ \E c \in Sleepers :
       /\ \A d \in Sleepers : call[c].sleepLeft <= call[d].sleepLeft
       /\ Advance(call[c].sleepLeft)
  /\ UNCHANGED <<phase, apiKey, authToken, sentFiles, cache, obs, submits, failed, delays, cleanups>>

\* d ms pass with no timer due: an answer is late, or the caller is busy elsewhere
Pause(d) ==
  /\ UNCHANGED cvars
  /\ phase \in {"ready", "cleaned"}
  /\ delays < MaxDelays
  /\ \A c \in Sleepers : call[c].sleepLeft >= d
  /\ Advance(d)
  /\ delays' = delays + 1
  /\ UNCHANGED <<phase, apiKey, authToken, sentFiles, cache, obs, submits, failed,
                 cleanups>>

\* the service lets a job wait for at most MaxPending polls
Patient(c, resp) ==
  resp.ok /\ resp.status \in {"queued", "processing"} => obs[c].polls <= MaxPending

AllIdle == \A c \in Calls : call[c].pc = "idle"

\* One renderer object driven as main.ts drives it: each renderFrame is awaited before
\* the next is called (main.ts:129-133, 331-334), cleanup comes when none is in flight
\* (main.ts:207-209); the service answers a job within MaxPending polls.
Next ==
  \/ \E oidcOk \in BOOLEAN, health \in {"ok", "notok", "unreachable"} :
       Initialize(oidcOk, health) /\ UNCHANGED mvars
  \/ \E c \in Calls, p \in Paths, f \in Frames, readOk \in BOOLEAN :
       AllIdle /\ RenderFrame(c, p, f, readOk) /\ UNCHANGED mvars
  \/ \E c \in Calls, ok \in BOOLEAN : RefreshResponse(c, ok) /\ UNCHANGED mvars
  \/ \E c \in Calls, outcome \in {"ok", "notok", "network"} : SubmitResponse(c, outcome) /\ UNCHANGED mvars
  \/ \E c \in Calls : TimerFires(c) /\ UNCHANGED mvars
  \/ \E c \in Calls, resp \in PollAnswers : Patient(c, resp) /\ PollResponse(c, resp) /\ UNCHANGED mvars
  \/ \E c \in Calls, outcome \in {"ok", "notok", "network", "writeFile"} :
       ImageResponse(c, outcome) /\ UNCHANGED mvars
  \/ \E c \in Calls : Return(c) /\ UNCHANGED mvars
  \/ Cleanup /\ UNCHANGED mvars
  \/ Tick /\ UNCHANGED mvars
  \/ Pause(Stall) /\ UNCHANGED mvars

Spec == Init /\ [][Next]_vars

\* The poll loop in full: one document, and a service that may keep its job waiting
\* forever and answer late.
PollPaths == {"a.pen"}

NextPoll ==
  \/ \E oidcOk \in BOOLEAN, health \in {"ok", "notok", "unreachable"} :
       Initialize(oidcOk, health) /\ UNCHANGED mvars
  \/ \E c \in Calls, p \in PollPaths, f \in Frames, readOk \in BOOLEAN :
       AllIdle /\ RenderFrame(c, p, f, readOk) /\ UNCHANGED mvars
  \/ \E c \in Calls, ok \in BOOLEAN : RefreshResponse(c, ok) /\ UNCHANGED mvars
  \/ \E c \in Calls, outcome \in {"ok", "notok", "network"} : SubmitResponse(c, outcome) /\ UNCHANGED mvars
  \/ \E c \in Calls : TimerFires(c) /\ UNCHANGED mvars
  \/ \E c \in Calls, resp \in PollAnswers : PollResponse(c, resp) /\ UNCHANGED mvars
  \/ \E c \in Calls, outcome \in {"ok", "notok", "network", "writeFile"} :
       ImageResponse(c, outcome) /\ UNCHANGED mvars
  \/ \E c \in Calls : Return(c) /\ UNCHANGED mvars
  \/ Tick /\ UNCHANGED mvars
  \/ Pause(Latency) /\ UNCHANGED mvars

SpecPoll == Init /\ [][NextPoll]_vars

\* One renderer object whose renderFrame is called again while an earlier call is
\* still awaiting the service: the frames of one document requested side by side.
NextConcurrent ==
  \/ \E oidcOk \in BOOLEAN, health \in {"ok", "notok", "unreachable"} :
       Initialize(oidcOk, health) /\ UNCHANGED mvars
  \/ \E c \in Calls, p \in PollPaths, f \in Frames, readOk \in BOOLEAN :
       RenderFrame(c, p, f, readOk) /\ UNCHANGED mvars
  \/ \E c \in Calls, outcome \in {"ok", "notok", "network"} : SubmitResponse(c, outcome) /\ UNCHANGED mvars
  \/ \E c \in Calls : TimerFires(c) /\ UNCHANGED mvars
  \/ \E c \in Calls, resp \in PollAnswers : Patient(c, resp) /\ PollResponse(c, resp) /\ UNCHANGED mvars
  \/ \E c \in Calls, outcome \in {"ok", "notok", "network", "writeFile"} :
       ImageResponse(c, outcome) /\ UNCHANGED mvars
  \/ \E c \in Calls : Return(c) /\ UNCHANGED mvars
  \/ Tick /\ UNCHANGED mvars

SpecConcurrent == Init /\ [][NextConcurrent]_vars

\* ------------------------------------------------------------ PR comments

\* comment-builder.ts getCommentMarker(commentId): the invisible marker of the report,
\* one per namespace
GetCommentMarker(commentId) ==
  IF commentId = "undefined" THEN "pencil-design-review" ELSE "pencil-design-review:diff"

\* comments.ts:90  comment.body?.includes(marker); a comment whose body is missing or
\* null is a record without the field body
Includes(comment, marker) ==
  "body" \in DOMAIN comment /\ marker \in comment.body.markers

Marked(marker) == {i \in 1..Len(comments) : Includes(comments[i], marker)}

\* comments.ts:77  const perPage = 100
perPage == 100

\* what issues.listComments answers for one page
ListPage(page) ==
  SubSeq(comments, (page - 1) * perPage + 1, Min(page * perPage, Len(comments)))

\* the id of the last comment of the page that carries the marker
LastMatch(data, marker) ==
  LET hits == {i \in 1..Len(data) : Includes(data[i], marker)}
  IN IF hits = {} THEN 0
     ELSE data[CHOOSE i \in hits : \A j \in hits : i >= j].id

\* comments.ts:89-93  the id of the first comment of the page that carries the marker
FirstMatch(data, marker) ==
  LET hits == {i \in 1..Len(data) : Includes(data[i], marker)}
  IN IF hits = {} THEN 0
     ELSE data[CHOOSE i \in hits : \A j \in hits : i <= j].id

\* the search goes on until a page comes back empty
LastPageWhenEmpty(data) == Len(data) = 0

\* comments.ts:96-98  if (response.data.length < perPage) break
LastPage(data) == Len(data) < perPage

\* comments.ts:49-56  issues.createComment is requested
IssueCreate(r, rec) == run' = [run EXCEPT ![r] = [rec EXCEPT !.pc = "creating"]]

\* comments.ts:17-36, 70-86  postComment is called with a report body
PostComment(r, mode, commentId) ==
  /\ run[r].pc = "idle"
  /\ \A q \in Runs : q < r => run[q].pc # "idle"
  /\ LET rec == [IdleRun EXCEPT
                   !.mode = mode, !.commentId = commentId,
                   !.body = [markers |-> {GetCommentMarker(commentId)}, text |-> r],
                   !.markedAtStart = (Marked(GetCommentMarker(commentId)) # {})]
     IN IF mode = "none"
        THEN run' = [run EXCEPT ![r] = [rec EXCEPT !.pc = "done"]]
        ELSE IF mode = "update"
        THEN run' = [run EXCEPT ![r] = [rec EXCEPT !.pc = "listing", !.page = 1]]
        ELSE IssueCreate(r, rec)
  /\ hist' = [hist EXCEPT !.modes = @ \cup {mode}, !.ids = @ \cup {commentId}]
  /\ UNCHANGED <<comments, nextId>>
  /\ UNCHANGED rvars

\* the error of the search leaves postComment
SearchFailedThrows(r) ==
  run' = [run EXCEPT ![r] = [@ EXCEPT !.pc = "thrown", !.listFailed = TRUE]]

\* comments.ts:102-105  a failed search is logged and counts as "no comment found"
SearchFailed(r) == IssueCreate(r, [run[r] EXCEPT !.listFailed = TRUE])

\* comments.ts:79-105, 37-47  one page of comments is answered
ListResponse(r, ok) ==
  /\ run[r].pc = "listing"
  /\ IF ~ok
     THEN /\ SearchFailed(r)
          /\ hist' = [hist EXCEPT !.listFailed = TRUE]
     ELSE /\ UNCHANGED hist
          /\ LET data == ListPage(run[r].page)
                 hit == FirstMatch(data, GetCommentMarker(run[r].commentId))
             IN IF hit # 0
                THEN run' = [run EXCEPT ![r] = [@ EXCEPT !.pc = "updating",
                                                         !.target = hit]]
                ELSE IF LastPage(data)
                THEN IssueCreate(r, run[r])
                ELSE run' = [run EXCEPT ![r] = [@ EXCEPT !.page = @ + 1]]
  /\ UNCHANGED <<comments, nextId>>
  /\ UNCHANGED rvars

\* comments.ts:39-45  issues.updateComment is answered
UpdateResponse(r, ok) ==
  /\ run[r].pc = "updating"
  /\ IF ok
     THEN /\ comments' = [i \in 1..Len(comments) |->
                            IF comments[i].id = run[r].target
                            THEN [comments[i] EXCEPT !.body = run[r].body]
                            ELSE comments[i]]
          /\ run' = [run EXCEPT ![r] = [@ EXCEPT !.pc = "done", !.ret = run[r].target]]
          /\ hist' = [hist EXCEPT !.returned = @ \cup {run[r].target}]
     ELSE /\ run' = [run EXCEPT ![r] = [@ EXCEPT !.pc = "thrown"]]
          /\ UNCHANGED <<comments, hist>>
  /\ UNCHANGED nextId
  /\ UNCHANGED rvars

\* comments.ts:51-59  issues.createComment is answered
CreateResponse(r, ok) ==
  /\ run[r].pc = "creating"
  /\ IF ok
     THEN /\ Len(comments) < MaxComments
          /\ comments' = Append(comments, [id |-> nextId, body |-> run[r].body])
          /\ nextId' = nextId + 1
          /\ run' = [run EXCEPT ![r] = [@ EXCEPT !.pc = "done", !.ret = nextId,
                                                 !.created = TRUE]]
          /\ hist' = [hist EXCEPT !.returned = @ \cup {nextId}]
     ELSE /\ run' = [run EXCEPT ![r] = [@ EXCEPT !.pc = "thrown"]]
          /\ UNCHANGED <<comments, nextId, hist>>
  /\ UNCHANGED rvars

\* the caller takes the result of postComment
Resume(r) ==
  /\ run[r].pc \in {"done", "thrown"}
  /\ run' = [run EXCEPT ![r] = IdleRun]
  /\ UNCHANGED <<comments, nextId, hist>>
  /\ UNCHANGED rvars

NoRunInFlight == \A r \in Runs : run[r].pc = "idle"

\* Workflow runs that publish to one pull request one after the other.
NextPublish ==
  \/ \E r \in Runs, mode \in {"create", "update", "none"}, commentId \in CommentIds :
       NoRunInFlight /\ PostComment(r, mode, commentId) /\ UNCHANGED mvars
  \/ \E r \in Runs, ok \in BOOLEAN : ListResponse(r, ok) /\ UNCHANGED mvars
  \/ \E r \in Runs, ok \in BOOLEAN : UpdateResponse(r, ok) /\ UNCHANGED mvars
  \/ \E r \in Runs, ok \in BOOLEAN : CreateResponse(r, ok) /\ UNCHANGED mvars
  \/ \E r \in Runs : Resume(r) /\ UNCHANGED mvars

SpecPublish == Init /\ [][NextPublish]_vars

\* Workflow runs that publish to one pull request at the same time.
NextRace ==
  \/ \E r \in Runs, mode \in {"create", "update", "none"}, commentId \in CommentIds :
       PostComment(r, mode, commentId) /\ UNCHANGED mvars
  \/ \E r \in Runs, ok \in BOOLEAN : ListResponse(r, ok) /\ UNCHANGED mvars
  \/ \E r \in Runs, ok \in BOOLEAN : UpdateResponse(r, ok) /\ UNCHANGED mvars
  \/ \E r \in Runs, ok \in BOOLEAN : CreateResponse(r, ok) /\ UNCHANGED mvars
  \/ \E r \in Runs : Resume(r) /\ UNCHANGED mvars

SpecRace == Init /\ [][NextRace]_vars

\* full pages of comments a pull request may hold before the search
MaxPages == 2

\* positions where a page begins or ends, and the last one
Edges(n) ==
  ({1, n} \cup {k * perPage : k \in 1..MaxPages}
          \cup {k * perPage + 1 : k \in 1..MaxPages}) \cap (1..n)

\* what a comment may be: written by somebody, without a body, or a report of the
\* action in either namespace
CommentKinds == {"human", "nobody", "report", "report:diff"}

CommentOf(id, kind) ==
  IF kind = "nobody" THEN [id |-> id]
  ELSE IF kind = "human" THEN [id |-> id, body |-> HumanBody]
  ELSE [id |-> id,
        body |-> [markers |-> {GetCommentMarker(IF kind = "report" THEN "undefined"
                                                ELSE "diff")},
                  text |-> 0]]

\* how many comments the pull request may hold: a page boundary, or one off it
SearchLengths ==
  {n \in 0..(MaxPages * perPage + 1) :
     \E k \in 0..MaxPages : n \in {k * perPage - 1, k * perPage, k * perPage + 1}}

\* pull requests of up to MaxPages full pages and one comment: all comments are
\* somebody's except at most two, placed where a page begins or ends
SearchLists ==
  UNION {{[i \in 1..n |->
             CommentOf(i, IF i = a THEN ka ELSE IF i = b THEN kb ELSE "human")] :
            a \in Edges(n) \cup {1}, b \in Edges(n) \cup {1},
            ka \in CommentKinds, kb \in CommentKinds} :
         n \in SearchLengths}

InitSearch ==
  /\ ConstructedRenderer
  /\ \E list \in SearchLists : PullRequest(list)
  /\ main = IdleMain

\* One postComment call in "update" mode on a pull request with many comments, up
\* to the answer of findExistingComment.
NextSearch ==
  \/ \E commentId \in CommentIds : PostComment(1, "update", commentId) /\ UNCHANGED mvars
  \/ \E ok \in BOOLEAN : ListResponse(1, ok) /\ UNCHANGED mvars

SpecSearch == InitSearch /\ [][NextSearch]_vars

\* every awaited issues.listComments request is answered, with a page or an error
LiveSearch ==
  SpecSearch /\ WF_vars(\E ok \in BOOLEAN : ListResponse(1, ok) /\ UNCHANGED mvars)

\* ------------------------------------------------------------ the run (main.ts)

\* documents a pull request may change
MaxFiles == 2

FileStatuses == {"added", "modified", "renamed", "deleted"}

RECURSIVE SeqsUpTo(_, _)
SeqsUpTo(S, n) ==
  IF n = 0 THEN {<< >>}
  ELSE LET shorter == SeqsUpTo(S, n - 1)
       IN shorter \cup {Append(q, x) : q \in shorter, x \in S}

\* what pulls.listFiles can report: each changed .pen file once, with its status
ChangedFileLists ==
  {q \in SeqsUpTo([path : Paths, status : FileStatuses], MaxFiles) :
     \A j, k \in 1..Len(q) : j # k => q[j].path # q[k].path}

\* the top-level frames of the document in the checkout
DocFrames(path) == IF path = "a.pen" THEN <<"f1", "f2">> ELSE <<"f1">>

\* main.ts:119-122, 326-328  frames.slice(0, maxFramesPerFile) when the cap is positive
FramesToProcess(frames, maxFramesPerFile) ==
  IF maxFramesPerFile > 0
  THEN SubSeq(frames, 1, Min(maxFramesPerFile, Len(frames)))
  ELSE frames

\* what fetchDiff reports of one document: how many of its frames are added and
\* how many modified; these are the frames a diff renders, a modified one from both
\* revisions
DiffSummaries == {[added |-> 0, modified |-> 0], [added |-> 1, modified |-> 1]}

\* what fetchDiff may return to runDiffMode: a diff result with its summary, or the
\* answer of the service as it came, without one
DiffResults == DiffSummaries \cup {[missing |-> TRUE]}

RECURSIVE CountSuccess(_)
CountSuccess(frames) ==
  IF frames = << >> THEN 0
  ELSE (IF Head(frames).success THEN 1 ELSE 0) + CountSuccess(Tail(frames))

File(m) == m.changedFiles[m.i]

\* one entry of fileResults
Entry(path, status, kind, frames) ==
  [path |-> path, status |-> status, kind |-> kind, frames |-> frames]

\* fileResults.push(entry)
PushResult(fileResults, entry) == Append(fileResults, entry)

\* the for loop goes on to the next changed file
NextDoc(m) ==
  [m EXCEPT !.pc = "files", !.i = @ + 1, !.pending = << >>, !.frameResults = << >>,
            !.asAdded = FALSE]

\* main.ts:72-78  an error reaches the catch of run(): core.setFailed
Fatal(m, cause) == [m EXCEPT !.pc = "end", !.setFailed = TRUE, !.cause = cause]

\* the error leaves the mode function without passing through its finally
ThrownPastFinally(m, cause) == [m EXCEPT !.pc = "end", !.setFailed = TRUE, !.cause = cause]

\* an error leaves the try block of runFullMode / runDiffMode through its finally
Thrown(m, cause) == [m EXCEPT !.pc = "finally", !.thrown = TRUE, !.cause = cause]

DocumentErrorFatal(m) == Thrown([m EXCEPT !.errs = @ \cup {File(m).path}], "document")

\* main.ts:152-165, 270-277  the catch around the work on one file: an error entry
DocumentError(m) ==
  NextDoc([m EXCEPT
             !.errs = @ \cup {File(m).path},
             !.fileResults =
               PushResult(@, Entry(File(m).path, File(m).status, "error", << >>))])

FileDoneKeepsStatus(m) ==
  IF m.pending # << >> THEN m
  ELSE NextDoc([m EXCEPT
                  !.fileResults =
                    PushResult(@, Entry(File(m).path, File(m).status,
                                        "frames", m.frameResults)),
                  !.totalFramesRendered =
                    IF m.diffMode THEN @ + CountSuccess(m.frameResults) ELSE @,
                  !.counted[File(m).path] =
                    IF m.diffMode THEN @ + CountSuccess(m.frameResults) ELSE @])

\* main.ts:147-151, 248-250, 266-268  every frame is done: the entry of the file
FileDone(m) ==
  IF m.pending # << >> THEN m
  ELSE NextDoc([m EXCEPT
                  !.fileResults =
                    PushResult(@, Entry(File(m).path,
                                        IF m.asAdded THEN "added" ELSE File(m).status,
                                        "frames", m.frameResults)),
                  !.totalFramesRendered =
                    IF m.diffMode THEN @ + CountSuccess(m.frameResults) ELSE @,
                  !.counted[File(m).path] =
                    IF m.diffMode THEN @ + CountSuccess(m.frameResults) ELSE @])

ShouldPublishAlways(commentMode) == TRUE

\* main.ts:49, 176, 286  if (inputs.commentMode !== 'none')
ShouldPublish(commentMode) == commentMode # "none"

RunStartLate(m, isPullRequest, inputsValid) == [m EXCEPT !.pc = "listFiles"]

\* main.ts:25-41  the pull-request check, then getInputs and validateInputs
RunStartChecks(m, isPullRequest, inputsValid) ==
  IF ~isPullRequest THEN Fatal(m, "context")
  ELSE IF ~inputsValid THEN Fatal(m, "config")
  ELSE [m EXCEPT !.pc = "listFiles"]

\* diff review mode is taken whatever the renderer
UseDiffModeAnyRenderer(reviewMode, renderer) == reviewMode = "diff"

\* main.ts:64  if (inputs.reviewMode === 'diff' && inputs.renderer === 'service')
UseDiffMode(reviewMode, renderer) == reviewMode = "diff" /\ renderer = "service"

\* main.ts:64-71  the mode function run() calls, after the warning of the fall back
ModeCalled(m) ==
  IF m.diffMode THEN {"runDiffMode"}
  ELSE {"runFullMode"} \cup (IF m.reviewMode = "diff" THEN {"fallback"} ELSE {})

\* main.ts:22-41, 64-71  run() is entered with the inputs of the workflow
RunStart(isPullRequest, inputsValid, commentMode, reviewMode, renderer, includeDeleted, maxFramesPerFile, namespace) ==
  /\ main.pc = "start"
  /\ \A r \in Runs : run[r].pc = "idle"
  /\ main' = RunStartChecks(
       [main EXCEPT !.isPullRequest = isPullRequest, !.inputsValid = inputsValid,
                    !.commentMode = commentMode, !.namespace = namespace,
                    !.reviewMode = reviewMode,
                    !.diffMode = UseDiffMode(reviewMode, renderer),
                    !.service = (renderer = "service"),
                    !.includeDeleted = includeDeleted,
                    !.maxFramesPerFile = maxFramesPerFile],
       isPullRequest, inputsValid)
  /\ UNCHANGED <<rvars, cvars>>

\* main.ts:44-62  getChangedPenFiles, and the short cut when nothing changed
GetChangedPenFiles(files, ok) ==
  /\ main.pc = "listFiles"
  /\ LET m == [main EXCEPT !.log = @ \cup {"listFiles"}]
     IN main' =
          IF ~ok THEN Fatal(m, "listFiles")
          ELSE IF files = << >>
          THEN [m EXCEPT !.pc = IF ShouldPublish(m.commentMode)
                                THEN "publish" ELSE "outputs"]
          ELSE [m EXCEPT !.pc = "initRenderer", !.changedFiles = files,
                         !.log = @ \cup ModeCalled(m)]
  /\ UNCHANGED <<rvars, cvars>>

\* main.ts:91, 222, 348-367  initializeRenderer: outside the try of the mode function
InitializeRenderer(ok) ==
  /\ main.pc = "initRenderer"
  /\ ok \/ main.service
  /\ LET m == [main EXCEPT !.log = @ \cup {"initRenderer"}
                                     \cup (IF main.service THEN {"health"} ELSE {})]
     IN main' = IF ok THEN [m EXCEPT !.pc = "files", !.i = 1]
                ELSE Fatal(m, "renderer")
  /\ UNCHANGED <<rvars, cvars>>

\* main.ts:100-111, 230-241, 264  the head of the loop over the changed files
ProcessFile ==
  /\ main.pc = "files"
  /\ main' =
       IF main.i > Len(main.changedFiles) THEN [main EXCEPT !.pc = "upload"]
       ELSE IF File(main).status = "deleted"
       THEN NextDoc(IF main.diffMode /\ ~main.includeDeleted THEN main
                    ELSE [main EXCEPT !.fileResults =
                            PushResult(@, Entry(File(main).path, "deleted",
                                                "frames", << >>))])
       ELSE IF main.diffMode /\ File(main).status \in {"modified", "renamed"}
       THEN [main EXCEPT !.pc = "baseFetch"]
       ELSE [main EXCEPT !.pc = "load"]
  /\ UNCHANGED <<rvars, cvars>>

\* main.ts:244-252, comments.ts:434-471  getFileContentAtRef of the base revision
GetFileContentAtRef(outcome) ==
  /\ main.pc = "baseFetch"
  /\ LET m == [main EXCEPT !.log = @ \cup {"baseFetch"}]
     IN main' =
          IF outcome = "error" THEN DocumentError(m)
          ELSE IF outcome = "notFound"
          THEN [m EXCEPT !.pc = "load", !.asAdded = TRUE,
                         !.notFound = @ \cup {File(m).path}]
          ELSE [m EXCEPT !.pc = "diff"]
  /\ UNCHANGED <<rvars, cvars>>

\* main.ts:255-262, 270-277  readLocalFileAsBase64, then renderer.fetchDiff; the entry
\* of the file is pushed before diffResult.summary is read, and an error of that read
\* is caught like any other error of the file
FetchDiff(readOk, ok, summary) ==
  /\ main.pc = "diff"
  /\ main' =
       IF ~readOk THEN DocumentError(main)
       ELSE LET m == [main EXCEPT !.log = @ \cup {"diff"},
                                  !.diffed = @ \cup {File(main).path}]
                pushed == [m EXCEPT
                             !.fileResults =
                               PushResult(@, Entry(File(m).path, File(m).status,
                                                   "diff", << >>))]
            IN IF ~ok THEN DocumentError(m)
               ELSE IF "added" \notin DOMAIN summary THEN DocumentError(pushed)
               ELSE NextDoc([pushed EXCEPT
                      !.totalFramesRendered =
                        @ + summary.added + summary.modified * 2,
                      !.counted[File(m).path] =
                        @ + summary.added + summary.modified * 2,
                      !.rendered = @ + summary.added + summary.modified])
  /\ UNCHANGED <<rvars, cvars>>

\* main.ts:115-127, 324-330  loadPenDocument and getTopLevelFrames
LoadPenDocument(ok) ==
  /\ main.pc = "load"
  /\ main' =
       IF ~ok THEN DocumentError(main)
       ELSE FileDone([main EXCEPT
                        !.pc = "render",
                        !.pending = FramesToProcess(DocFrames(File(main).path),
                                                    main.maxFramesPerFile),
                        !.frameResults = << >>])
  /\ UNCHANGED <<rvars, cvars>>

\* main.ts:132-145, 333-341  renderFrame has returned its result for the next frame
FrameRendered(m, success) ==
  FileDone([m EXCEPT
              !.pc = "render",
              !.log = @ \cup {IF m.service THEN "renderService" ELSE "render"},
              !.requested = @ \cup {<<File(m).path, Head(m.pending)>>},
              !.errs = IF success THEN @ ELSE @ \cup {File(m).path},
              !.frameResults = Append(@, [id |-> Head(m.pending), success |-> success]),
              !.totalFramesRendered = IF success /\ ~m.diffMode THEN @ + 1 ELSE @,
              !.counted[File(m).path] = IF success /\ ~m.diffMode THEN @ + 1 ELSE @,
              !.rendered = IF success THEN @ + 1 ELSE @,
              !.pending = Tail(@)])

\* main.ts:129-145, 331-341  one awaited renderer.renderFrame and its result
RenderNextFrame(success) ==
  /\ main.pc = "render"
  /\ main.pending # << >>
  /\ main' = FrameRendered(main, success)
  /\ UNCHANGED <<rvars, cvars>>

\* main.ts:168-173, 280-283  uploadScreenshots when upload-artifacts is on
UploadScreenshots(outcome) ==
  /\ main.pc = "upload"
  /\ main' =
       IF outcome = "threw" THEN Thrown(main, "upload")
       ELSE [main EXCEPT !.pc = IF ShouldPublish(main.commentMode)
                                THEN "publish" ELSE "outputs"]
  /\ UNCHANGED <<rvars, cvars>>

\* main.ts:50-55, 186-192, 296  postComment is called with the report, and no commentId
Publish ==
  /\ main.pc = "publish"
  /\ PostComment(1, main.commentMode, "undefined")
  /\ main' = [main EXCEPT !.pc = "publishing", !.log = @ \cup {"postComment"}]

\* main.ts:50-55, 187-197, 296-300  the awaited postComment returns or throws
CommentReturned ==
  /\ main.pc = "publishing"
  /\ run[1].pc \in {"done", "thrown"}
  /\ run' = [run EXCEPT ![1] = IdleRun]
  /\ main' =
       IF run[1].pc = "thrown"
       THEN IF main.changedFiles = << >> THEN Fatal(main, "comment")
            ELSE Thrown(main, "comment")
       ELSE [main EXCEPT
               !.pc = "outputs",
               !.edited = run[1].target,
               !.published = run[1].ret,
               !.commentIdOut = IF main.changedFiles # << >> THEN run[1].ret ELSE @]
  /\ UNCHANGED <<comments, nextId, hist>>
  /\ UNCHANGED rvars

\* main.ts:58, 200-204, 303-307, 392-405  setOutputs
SetOutputs ==
  /\ main.pc = "outputs"
  /\ main' = [main EXCEPT
       !.pc = IF main.changedFiles = << >> THEN "end" ELSE "finally",
       !.outputs = [set |-> TRUE,
                    screenshotsPath |-> IF main.changedFiles = << >> THEN "" ELSE "dir",
                    changedFiles |-> [j \in 1..Len(main.changedFiles) |->
                                        main.changedFiles[j].path],
                    framesRendered |-> main.totalFramesRendered]]
  /\ UNCHANGED <<rvars, cvars>>

\* main.ts:207-209, 310-312, 72-78  finally: renderer.cleanup(); a pending error then
\* reaches the catch of run()
Finally(m) ==
  [m EXCEPT !.pc = "end", !.log = @ \cup {"cleanup"}, !.setFailed = m.thrown]

FinallyCleanup ==
  /\ main.pc = "finally"
  /\ main' = Finally(main)
  /\ UNCHANGED <<rvars, cvars>>

\* main.ts:186-192  an earlier run of the action on this pull request, whose workflow
\* sets the comment-id input to namespace, publishes its report
EarlierRun(namespace, commentMode) ==
  /\ main.pc = "start"
  /\ main.earlier = "-"
  /\ \A r \in Runs : run[r].pc = "idle"
  /\ PostComment(1, commentMode, "undefined")
  /\ main' = [main EXCEPT !.earlier = namespace]

\* main.ts:193-197  the earlier run has its comment id
EarlierReturned ==
  /\ main.pc = "start"
  /\ run[1].pc \in {"done", "thrown"}
  /\ run' = [run EXCEPT ![1] = IdleRun]
  /\ main' = [main EXCEPT !.earlierId = IF run[1].pc = "done" THEN run[1].ret ELSE 0]
  /\ UNCHANGED <<comments, nextId, hist>>
  /\ UNCHANGED rvars

\* The renderer object is followed through the calls main.ts makes on it; its own
\* fields stay as constructed.
InitRun == Init /\ ~apiKey

\* One run of the action over the changed documents of a pull request that no run
\* has published to; its report is a new comment, or none.
NextRun ==
  \/ \E isPullRequest \in BOOLEAN, inputsValid \in BOOLEAN,
        commentMode \in {"create", "none"}, reviewMode \in {"full", "diff"},
        renderer \in {"metadata", "service"}, includeDeleted \in BOOLEAN,
        maxFramesPerFile \in {0, 1} :
       RunStart(isPullRequest, inputsValid, commentMode, reviewMode, renderer,
                includeDeleted, maxFramesPerFile, "undefined")
  \/ \E files \in ChangedFileLists, ok \in BOOLEAN : GetChangedPenFiles(files, ok)
  \/ \E ok \in BOOLEAN : InitializeRenderer(ok)
  \/ ProcessFile
  \/ \E outcome \in {"content", "notFound", "error"} : GetFileContentAtRef(outcome)
  \/ \E readOk \in BOOLEAN, ok \in BOOLEAN, summary \in DiffResults :
       FetchDiff(readOk, ok, summary)
  \/ \E ok \in BOOLEAN : LoadPenDocument(ok)
  \/ \E success \in BOOLEAN : RenderNextFrame(success)
  \/ \E outcome \in {"off", "done", "threw"} : UploadScreenshots(outcome)
  \/ Publish
  \/ \E ok \in BOOLEAN : CreateResponse(1, ok) /\ UNCHANGED mvars
  \/ CommentReturned
  \/ SetOutputs
  \/ FinallyCleanup

SpecRun == InitRun /\ [][NextRun]_vars

\* documents in a pull request whose report is followed through every comment mode
MaxReportFiles == 1

\* One run of the action on a pull request, after at most one earlier run has
\* published there; the comment API is followed request by request.
NextReport ==
  \/ \E namespace \in CommentIds, commentMode \in {"update", "none"} :
       EarlierRun(namespace, commentMode)
  \/ EarlierReturned
  \/ \E isPullRequest \in BOOLEAN, inputsValid \in BOOLEAN,
        commentMode \in {"create", "update", "none"}, reviewMode \in {"full", "diff"},
        renderer \in {"metadata", "service"}, includeDeleted \in BOOLEAN,
        maxFramesPerFile \in {1} :
       RunStart(isPullRequest, inputsValid, commentMode, reviewMode, renderer,
                includeDeleted, maxFramesPerFile, "undefined")
  \/ \E files \in {q \in ChangedFileLists : Len(q) <= MaxReportFiles}, ok \in BOOLEAN :
       GetChangedPenFiles(files, ok)
  \/ \E ok \in BOOLEAN : InitializeRenderer(ok)
  \/ ProcessFile
  \/ \E outcome \in {"content", "notFound", "error"} : GetFileContentAtRef(outcome)
  \/ \E readOk \in BOOLEAN, ok \in BOOLEAN, summary \in DiffResults :
       FetchDiff(readOk, ok, summary)
  \/ \E ok \in BOOLEAN : LoadPenDocument(ok)
  \/ \E success \in BOOLEAN : RenderNextFrame(success)
  \/ \E outcome \in {"off", "done", "threw"} : UploadScreenshots(outcome)
  \/ Publish
  \/ \E ok \in BOOLEAN : ListResponse(1, ok) /\ UNCHANGED mvars
  \/ \E ok \in BOOLEAN : UpdateResponse(1, ok) /\ UNCHANGED mvars
  \/ \E ok \in BOOLEAN : CreateResponse(1, ok) /\ UNCHANGED mvars
  \/ CommentReturned
  \/ SetOutputs
  \/ FinallyCleanup

SpecReport == InitRun /\ [][NextReport]_vars

\* ------------------------------------------------------------ the run and its renderer

\* main.ts:91, 222, 348-367  initializeRenderer with the service renderer: initialize()
InitializeService(oidcOk, health) ==
  /\ main.pc = "initRenderer"
  /\ main.service
  /\ Initialize(oidcOk, health)
  /\ LET m == [main EXCEPT !.log = @ \cup {"initRenderer", "health"}]
     IN main' = IF phase' = "ready" THEN [m EXCEPT !.pc = "files", !.i = 1]
                ELSE Fatal(m, "renderer")

\* main.ts:132, 333  renderer.renderFrame is called for the next frame of the file
CallRenderFrame(readOk) ==
  /\ main.pc = "render"
  /\ main.pending # << >>
  /\ RenderFrame(1, File(main).path, Head(main.pending), readOk)
  /\ main' = [main EXCEPT !.pc = "rendering"]

\* main.ts:132-145, 333-341  the awaited renderFrame returns its result
RenderFrameReturned ==
  /\ main.pc = "rendering"
  /\ call[1].pc = "done"
  /\ Return(1)
  /\ main' = FrameRendered(main, call[1].result = "success")

\* main.ts:207-209, 310-312  finally: the awaited renderer.cleanup()
FinallyCleanupService ==
  /\ main.pc = "finally"
  /\ Cleanup
  /\ main' = Finally(main)

\* documents of a run whose renderer is followed request by request
MaxServiceFiles == 1

\* the added and modified documents of such a run
ServiceFileLists ==
  {q \in ChangedFileLists :
     /\ Len(q) <= MaxServiceFiles
     /\ \A j \in 1..Len(q) : q[j].status \in {"added", "modified"}}

\* One run of the action with the service renderer: every renderFrame call of the
\* run is followed through its requests to the service, up to cleanup(); the service
\* answers without delay and within MaxPending polls, so the token of the run stays
\* fresh.
NextService ==
  \/ \E commentMode \in {"create", "none"}, reviewMode \in {"full", "diff"} :
       RunStart(TRUE, TRUE, commentMode, reviewMode, "service", TRUE, 0, "undefined")
  \/ \E files \in ServiceFileLists, ok \in BOOLEAN : GetChangedPenFiles(files, ok)
  \/ \E oidcOk \in BOOLEAN, health \in {"ok", "notok", "unreachable"} :
       InitializeService(oidcOk, health)
  \/ ProcessFile
  \/ \E outcome \in {"content", "notFound", "error"} : GetFileContentAtRef(outcome)
  \/ \E readOk \in BOOLEAN, ok \in BOOLEAN, summary \in DiffResults :
       FetchDiff(readOk, ok, summary)
  \/ \E ok \in BOOLEAN : LoadPenDocument(ok)
  \/ \E readOk \in BOOLEAN : CallRenderFrame(readOk)
  \/ \E c \in Calls, outcome \in {"ok", "notok", "network"} :
       SubmitResponse(c, outcome) /\ UNCHANGED mvars
  \/ \E c \in Calls : TimerFires(c) /\ UNCHANGED mvars
  \/ \E c \in Calls, resp \in PollAnswers :
       Patient(c, resp) /\ PollResponse(c, resp) /\ UNCHANGED mvars
  \/ \E c \in Calls, outcome \in {"ok", "notok", "network", "writeFile"} :
       ImageResponse(c, outcome) /\ UNCHANGED mvars
  \/ Tick /\ UNCHANGED mvars
  \/ RenderFrameReturned
  \/ \E outcome \in {"off", "done", "threw"} : UploadScreenshots(outcome)
  \/ Publish
  \/ \E ok \in BOOLEAN : CreateResponse(1, ok) /\ UNCHANGED mvars
  \/ CommentReturned
  \/ SetOutputs
  \/ FinallyCleanupService

SpecService == InitRun /\ [][NextService]_vars

\* ------------------------------------------------------------ the diff of two revisions

\* frames in one revision of a document
MaxIndexLen == 3

FrameIds == {"f1", "f2", "f3"}
Fingerprints == {"h1", "h2"}

\* a frame index: the frames of one revision in traversal order, keyed by id
FrameIndexes ==
  {q \in SeqsUpTo([id : FrameIds, hash : Fingerprints], MaxIndexLen) :
     \A j, k \in 1..Len(q) : j # k => q[j].id # q[k].id}

IdsOf(index) == {index[j].id : j \in 1..Len(index)}

HashOf(index, id) == index[CHOOSE j \in 1..Len(index) : index[j].id = id].hash

RECURSIVE IdList(_)
IdList(index) ==
  IF index = << >> THEN << >> ELSE <<Head(index).id>> \o IdList(Tail(index))

\* a frame present in both revisions is listed as modified whatever its fingerprint
DiffIgnoresFingerprint(base, head) ==
  LET Added(f) == f.id \notin IdsOf(base)
      Both(f) == f.id \in IdsOf(base)
      Removed(f) == f.id \notin IdsOf(head)
      Unchanged(f) == f.id \in IdsOf(base) /\ f.hash = HashOf(base, f.id)
  IN [added |-> IdList(SelectSeq(head, Added)),
      modified |-> IdList(SelectSeq(head, Both)),
      removed |-> IdList(SelectSeq(base, Removed)),
      unchanged |-> IdList(SelectSeq(head, Unchanged))]

\* diff(baseIndex, headIndex): frames are matched by id and compared by fingerprint;
\* added, modified and unchanged keep the order of head, removed the order of base
Diff(base, head) ==
  LET Added(f) == f.id \notin IdsOf(base)
      Modified(f) == f.id \in IdsOf(base) /\ f.hash # HashOf(base, f.id)
      Removed(f) == f.id \notin IdsOf(head)
      Unchanged(f) == f.id \in IdsOf(base) /\ f.hash = HashOf(base, f.id)
  IN [added |-> IdList(SelectSeq(head, Added)),
      modified |-> IdList(SelectSeq(head, Modified)),
      removed |-> IdList(SelectSeq(base, Removed)),
      unchanged |-> IdList(SelectSeq(head, Unchanged))]

\* main.ts:244-259  the base and the head revision of a modified document are at hand
InitDiff ==
  /\ Constructed
  /\ ~apiKey
  /\ \E base \in FrameIndexes, head \in FrameIndexes :
       main = [IdleMain EXCEPT !.pc = "revisions", !.base = base, !.head = head]

\* main.ts:259-261  the diff result of the document
DiffComputed ==
  /\ main.pc = "revisions"
  /\ main' = [main EXCEPT !.pc = "diffed", !.diff = Diff(main.base, main.head)]
  /\ UNCHANGED <<rvars, cvars>>

NextDiff == DiffComputed

SpecDiff == InitDiff /\ [][NextDiff]_vars

\* ------------------------------------------------------------ the .pen parser

\* children of the root of a document
MaxChildren == 2

\* nodes below the root's children
NestedNodes ==
  [id : {"n1"}, type : {"frame", "rectangle"}, children : {<< >>}]

\* the root's children: frames and groups, with or without a node inside
RootChildren ==
  [id : {"f1", "f2"}, type : {"frame", "group"},
   children : {<< >>} \cup {<<n>> : n \in NestedNodes}]

\* the text of a .pen file: not JSON at all, a JSON value that is not an object, or
\* an object whose children property is absent, an array of nodes, or a value that
\* cannot be iterated (a number, an object)
Contents ==
  {[kind |-> k, childrenKind |-> "absent", children |-> << >>] :
     k \in {"invalid", "null", "number", "string", "boolean", "array", "object"}}
  \cup {[kind |-> "object", childrenKind |-> "notIterable", children |-> << >>]}
  \cup {[kind |-> "object", childrenKind |-> "array", children |-> q] :
          q \in SeqsUpTo(RootChildren, MaxChildren)}

\* pen-parser.ts:166-171  JSON.parse(content) as PenDocument: any JSON value passes
JsonParse(content) ==
  IF content.kind = "invalid" THEN [threw |-> TRUE, document |-> NoContent]
  ELSE [threw |-> FALSE, document |-> content]

RECURSIVE CollectFrames(_)
\* pen-parser.ts:53-75  collectFrames: the node if it is a frame, then its subtree
CollectFrames(nodes) ==
  IF nodes = << >> THEN << >>
  ELSE (IF Head(nodes).type = "frame" THEN <<Head(nodes).id>> ELSE << >>)
       \o CollectFrames(Head(nodes).children) \o CollectFrames(Tail(nodes))

\* pen-parser.ts:38-48  extractFrames: frames at any level of the hierarchy
ExtractFrames(document) ==
  IF document.kind = "null" \/ document.childrenKind = "notIterable"
  THEN [threw |-> TRUE, frames |-> << >>]
  ELSE [threw |-> FALSE, frames |-> CollectFrames(document.children)]

\* pen-parser.ts:95-116  getTopLevelFrames: document.children of null throws a
\* TypeError, of a number, string, boolean or array is undefined; a children value
\* that is not iterable throws; a child is taken when child.type === 'frame'
GetTopLevelFrames(document) ==
  IF document.kind = "null" \/ document.childrenKind = "notIterable"
  THEN [threw |-> TRUE, frames |-> << >>]
  ELSE LET IsFrame(child) == child.type = "frame"
       IN [threw |-> FALSE, frames |-> IdList(SelectSeq(document.children, IsFrame))]

\* main.ts:113-165  the try around one file: loadPenDocument, getTopLevelFrames, and
\* the catch that makes an error entry
ProcessDocument(content, maxFramesPerFile) ==
  LET loaded == JsonParse(content)
      indexed == GetTopLevelFrames(loaded.document)
  IN IF loaded.threw \/ indexed.threw
     THEN [kind |-> "error", frames |-> << >>]
     ELSE [kind |-> "frames", frames |-> FramesToProcess(indexed.frames, maxFramesPerFile)]

\* pen-parser.ts:164  the file of a changed document has been read
InitParse ==
  /\ Constructed
  /\ ~apiKey
  /\ \E content \in Contents : main = [IdleMain EXCEPT !.pc = "content", !.content = content]

\* main.ts:113-165  the document is loaded and its frames are listed
DocumentProcessed ==
  /\ main.pc = "content"
  /\ main' = [main EXCEPT
       !.pc = "processed",
       !.outcome = ProcessDocument(main.content, main.maxFramesPerFile)]
  /\ UNCHANGED <<rvars, cvars>>

NextParse == DocumentProcessed

SpecParse == InitParse /\ [][NextParse]_vars

\* ------------------------------------------------------------ fairness

\* The event loop runs every timer that is due and every continuation that is ready,
\* and every request the renderer has sent is answered.
FairPoll ==
  /\ WF_vars(Tick /\ UNCHANGED mvars)
  /\ \A c \in Calls :
       /\ WF_vars(TimerFires(c) /\ UNCHANGED mvars)
       /\ WF_vars(\E resp \in PollAnswers : PollResponse(c, resp) /\ UNCHANGED mvars)
       /\ WF_vars(\E ok \in BOOLEAN : RefreshResponse(c, ok) /\ UNCHANGED mvars)

LivePoll == SpecPoll /\ FairPoll

\* ------------------------------------------------------------ properties

InFlight(c) == call[c].pc # "idle"

\* C1: between initialize and cleanup at most one job is submitted (one POST to the
\* screenshot endpoint) per document path, however many of its frames are requested
\* and whether or not the first submission succeeded.
C1_OneSubmissionPerPath == \A p \in Paths : submits[p] <= 1

\* a later call for a document whose one submission failed has sent no submit request
C1_Witness ==
  \E c \in Calls :
    /\ call[c].pc = "done"
    /\ call[c].path \in failed
    /\ submits[call[c].path] = 1
    /\ "submit" \notin obs[c].reqs

\* C2 as stated: a renderFrame call for a document whose result is cached issues no
\* outbound request at all.
C2_NoRequestWhenCached ==
  \A c \in Calls : InFlight(c) /\ obs[c].cachedAtStart => obs[c].reqs = {}

\* C2 amended: a renderFrame call for a document whose result is cached issues no
\* submit, poll or token request; its only outbound request is the download of the
\* image of the frame, made exactly when the frame is in the cached result.
C2_OnlyImageWhenCached ==
  \A c \in Calls :
    InFlight(c) /\ obs[c].cachedAtStart =>
      obs[c].reqs = IF Cached(call[c].path, call[c].frame) THEN {"image"} ELSE {}

\* a call answered from the cache has succeeded after its image download
C2_Witness ==
  \E c \in Calls :
    /\ obs[c].cachedAtStart
    /\ call[c].pc = "done"
    /\ call[c].result = "success"
    /\ obs[c].reqs = {"image"}

\* C3: once the job of a document has ended in failure, the renderFrame call that
\* triggered it and every later call for a frame of that document (until cleanup)
\* returns an unsuccessful result, and no renderFrame call ever throws.
C3_FailedJobGivesErrors ==
  \A c \in Calls :
    /\ call[c].pc # "thrown"
    /\ call[c].pc = "done" /\ call[c].path \in failed => call[c].result # "success"

\* the job of one document has failed and a frame of another document is rendered
C3_Witness ==
  \E c \in Calls :
    /\ failed # {}
    /\ \E p \in failed : submits[p] = 1
    /\ call[c].pc = "done"
    /\ call[c].result = "success"
    /\ call[c].path \notin failed

\* C4: when the N-th poll answer is the first terminal one and reports "completed"
\* with a result, pollForCompletion returns exactly that result (it is what gets
\* cached for the path) after exactly N poll requests, and no poll follows.
C4_CompletedOnNthPoll ==
  \A c \in Calls :
    obs[c].completedAt > 0 =>
      /\ obs[c].polls = obs[c].completedAt
      /\ call[c].pc \in {"downloading", "done"}
      /\ call[c].path \in DOMAIN cache
      /\ cache[call[c].path] = obs[c].served

\* a job completed on its third poll or later, and the call has returned
C4_Witness ==
  \E c \in Calls :
    /\ obs[c].completedAt >= 3
    /\ call[c].pc = "done"
    /\ call[c].result = "success"

C6_NoPollPastBudget ==
  \A c \in Calls : call[c].pc = "polling" => obs[c].pollElapsed <= POLL_TIMEOUT_MS

\* C6 amended: the budget is checked before each wait, not before each poll: every
\* wait and every poll follows a check that found at most POLL_TIMEOUT_MS elapsed,
\* and a check that finds more ends the polling (no wait or poll follows it).
C6_PollFollowsPassedCheck ==
  \A c \in Calls :
    Polling(c) => obs[c].checkElapsed <= POLL_TIMEOUT_MS /\ obs[c].timeouts = 0

\* a poll issued after the budget, behind a check that was still within it
C6_Witness ==
  \E c \in Calls :
    /\ call[c].pc = "polling"
    /\ obs[c].pollElapsed > POLL_TIMEOUT_MS
    /\ obs[c].checkElapsed <= POLL_TIMEOUT_MS

\* the k-th wait of the capped exponential schedule
RECURSIVE Wait(_)
Wait(k) ==
  IF k <= 1 THEN 2000
  ELSE IF (Wait(k - 1) * 3) \div 2 < 15000 THEN (Wait(k - 1) * 3) \div 2 ELSE 15000

\* C7: the wait before the k-th poll is the k-th term of the schedule 2000,
\* min(previous * 1.5, 15000): non-decreasing, never above 15000 ms; every poll is
\* preceded by its wait.
C7_BackoffSchedule ==
  \A c \in Calls :
    Polling(c) =>
      /\ call[c].interval = Wait(obs[c].sleeps)
      /\ call[c].interval <= 15000
      /\ obs[c].sleeps > 1 => call[c].interval >= Wait(obs[c].sleeps - 1)
      /\ obs[c].polls = IF call[c].pc = "polling" THEN obs[c].sleeps
                        ELSE obs[c].sleeps - 1

\* the eighth poll of a job has been issued after a wait at the cap
C7_Witness ==
  \E c \in Calls :
    /\ call[c].pc = "polling"
    /\ obs[c].polls = 8
    /\ call[c].interval = POLL_MAX_INTERVAL_MS

\* ------------------------------------------------------------ publishing

\* every call made so far was in mode "update" and with one marker
OnlyUpdatesOneMarker ==
  hist.modes \subseteq {"update"} /\ Cardinality(hist.ids) <= 1

\* C8: starting from a pull request without a marked comment, sequential postComment
\* calls in mode "update" with one marker all return the same comment id, and after
\* each call that returned exactly one comment carries the marker.
C8_IdempotentPublish ==
  OnlyUpdatesOneMarker =>
    /\ Cardinality(hist.returned) <= 1
    /\ \A r \in Runs :
         run[r].pc = "done" =>
           Cardinality(Marked(GetCommentMarker(run[r].commentId))) = 1

\* C9: while runs publish in mode "update" with one marker to one pull request at the
\* same time, and every listing of the comments succeeds, at most one comment carries
\* the marker in every state.
C9_AtMostOneMarkedComment ==
  (OnlyUpdatesOneMarker /\ ~hist.listFailed) =>
    \A commentId \in CommentIds : Cardinality(Marked(GetCommentMarker(commentId))) <= 1

\* C10: a postComment call that returned has created a comment exactly when its mode
\* is "create", or its mode is "update" and no comment carried the marker; the id it
\* returns is then the id of the new comment, and no other comment was edited.
C10_CreatesExactlyWhen ==
  \A r \in Runs :
    run[r].pc = "done" =>
      /\ run[r].created <=>
           \/ run[r].mode = "create"
           \/ run[r].mode = "update" /\ ~run[r].markedAtStart
      /\ run[r].created =>
           /\ comments[Len(comments)] = [id |-> run[r].ret, body |-> run[r].body]
           /\ run[r].target = 0

\* C11: a postComment call in mode "update" that found a comment carrying the marker
\* when it was called returns by editing that comment in place: the step that ends
\* the call creates and deletes no comment, changes no other comment's body, and the
\* id returned is the id of the edited comment, which carried the marker.
C11_UpdateEditsInPlace ==
  [][\A r \in Runs :
       (/\ run[r].mode = "update"
        /\ run[r].markedAtStart
        /\ run[r].pc # "done"
        /\ run'[r].pc = "done")
       => /\ ~run'[r].created
          /\ Len(comments') = Len(comments)
          /\ \A i \in 1..Len(comments) :
               IF comments[i].id = run'[r].ret
               THEN /\ Includes(comments[i], GetCommentMarker(run[r].commentId))
                    /\ comments'[i] = [id |-> comments[i].id, body |-> run[r].body]
               ELSE comments'[i] = comments[i]
          /\ \E i \in 1..Len(comments) : comments[i].id = run'[r].ret]_vars

\* ------------------------------------------------------------ the run: properties

LoopPcs == {"files", "baseFetch", "diff", "load", "render"}

\* the entries of fileResults for one path
EntriesOf(path) ==
  {j \in 1..Len(main.fileResults) : main.fileResults[j].path = path}

\* an entry that shows an error: an error entry, or a frame whose render failed
ShowsError(entry) ==
  \/ entry.kind = "error"
  \/ \E j \in 1..Len(entry.frames) : ~entry.frames[j].success

\* frames of a path for which renderFrame has been called
RequestedOf(path) == {f \in Frames : <<path, f>> \in main.requested}

Range(q) == {q[j] : j \in 1..Len(q)}

\* C12: with comment mode "none" the run never has a comment request in flight, never
\* calls postComment and never sets the comment-id output; and a postComment call in
\* mode "none" returns at once with no comment id, having listed, created and updated
\* nothing.
C12_NoneSkipsPublishing ==
  /\ main.commentMode = "none" =>
       /\ run[1] = IdleRun
       /\ "postComment" \notin main.log
       /\ main.commentIdOut = 0
  /\ \A r \in Runs :
       run[r].mode = "none" =>
         /\ run[r].pc = "done"
         /\ run[r].ret = 0 /\ run[r].target = 0 /\ ~run[r].created

\* a run in mode "none" that processed a document and set its outputs, after a
\* postComment call in mode "none"
C12_Witness ==
  /\ main.pc = "end"
  /\ main.commentMode = "none"
  /\ ~main.setFailed
  /\ main.outputs.set
  /\ main.changedFiles # << >>
  /\ "none" \in hist.modes

\* C13: a run in "update" mode edits the comment an earlier run published only when
\* that run was configured with the same comment-id namespace.
C13_NamespacesDoNotCollide ==
  (main.edited # 0 /\ main.edited = main.earlierId) => main.earlier = main.namespace

\* C14: an error raised while one document is processed never ends the run: a run that
\* entered the loop leaves it only after the last document, with an entry for every
\* document that is not deleted, and an entry of a document that saw an error shows it.
C14_FailureIsolation ==
  (main.i >= 1 /\ main.pc \notin LoopPcs) =>
    /\ main.i = Len(main.changedFiles) + 1
    /\ \A j \in 1..Len(main.changedFiles) :
         LET file == main.changedFiles[j]
         IN /\ file.status # "deleted" => EntriesOf(file.path) # {}
            /\ file.path \in main.errs =>
                 \E k \in EntriesOf(file.path) : ShowsError(main.fileResults[k])

\* a run whose first document failed, whose second was rendered, and that published
C14_Witness ==
  /\ main.pc = "end"
  /\ ~main.setFailed
  /\ Len(main.changedFiles) = 2
  /\ main.changedFiles[1].path \in main.errs
  /\ main.changedFiles[2].path \notin main.errs
  /\ \E k \in EntriesOf(main.changedFiles[2].path) :
       /\ main.fileResults[k].kind = "frames"
       /\ main.fileResults[k].frames # << >>
  /\ "postComment" \in main.log

\* C15: a run that has ended is marked failed only for a context or configuration
\* error; otherwise it has set its outputs and, unless the comment mode is "none",
\* has published its report.
C15_OnlyContextAndConfigAreFatal ==
  main.pc = "end" =>
    IF ~main.isPullRequest \/ ~main.inputsValid
    THEN main.setFailed
    ELSE /\ ~main.setFailed
         /\ main.outputs.set
         /\ ShouldPublish(main.commentMode) => "postComment" \in main.log

\* C16: when the run is not on a pull request, or its inputs are invalid, the run is
\* marked failed at once: no changed-file lookup, no renderer, no render request and
\* no comment call has happened.
C16_FatalBeforeAnyWork ==
  (main.pc # "start" /\ (~main.isPullRequest \/ ~main.inputsValid)) =>
    /\ main.pc = "end"
    /\ main.setFailed
    /\ main.cause \in {"context", "config"}
    /\ main.log = {}
    /\ main.fileResults = << >>
    /\ run[1] = IdleRun

\* a run on a pull request whose inputs were invalid
C16_Witness ==
  /\ main.pc = "end"
  /\ main.isPullRequest
  /\ ~main.inputsValid
  /\ main.cause = "config"

\* C17: when the create or update call of the report fails, the run is not marked
\* failed and its outputs are set.
C17_CommentFailureNotFatal ==
  (main.pc = "end" /\ main.cause = "comment") =>
    /\ ~main.setFailed
    /\ main.outputs.set

\* C18: a run that found no changed document posts the "no changes" report (unless
\* the comment mode is "none"), reports zero frames and an empty changed-files list,
\* and has initialised no renderer and made no render or diff request.
C18_NoChangesShortCut ==
  (/\ main.pc = "end"
   /\ "listFiles" \in main.log
   /\ main.cause # "listFiles"
   /\ main.changedFiles = << >>)
  => /\ ShouldPublish(main.commentMode) => "postComment" \in main.log
     /\ main.outputs = [set |-> TRUE, screenshotsPath |-> "",
                        changedFiles |-> << >>, framesRendered |-> 0]
     /\ main.log \cap {"initRenderer", "health", "render", "renderService", "diff",
                       "cleanup"} = {}
     /\ phase = "constructed"

\* a document flagged modified or renamed whose base revision was not found, and
\* whose processing is over
BaseNotFoundDone(j) ==
  /\ j < main.i
  /\ main.changedFiles[j].path \in main.notFound

\* C19 (as stated): in diff mode a modified or renamed document whose base revision
\* is not found is reported as "added", with every head frame requested for render,
\* no diff request, and no error entry.
C19_BaseNotFoundAllFrames ==
  \A j \in 1..Len(main.changedFiles) :
    BaseNotFoundDone(j) =>
      LET path == main.changedFiles[j].path
      IN /\ path \notin main.diffed
         /\ RequestedOf(path) = Range(DocFrames(path))
         /\ \A k \in EntriesOf(path) :
              /\ main.fileResults[k].status = "added"
              /\ main.fileResults[k].kind = "frames"

\* C19 (amended): such a document gets no diff request; when its head revision loads it
\* is reported as "added" and its head frames are requested for render, the first
\* max-frames-per-file of them when that cap is positive; when its head revision fails
\* to load it is an error entry under its own status, with no frame requested.
C19_BaseNotFoundTreatedAsAdded ==
  \A j \in 1..Len(main.changedFiles) :
    BaseNotFoundDone(j) =>
      LET path == main.changedFiles[j].path
          frames == DocFrames(path)
          cap == main.maxFramesPerFile
          head == IF cap > 0 /\ cap < Len(frames)
                  THEN {frames[k] : k \in 1..cap} ELSE Range(frames)
      IN /\ path \notin main.diffed
         /\ Cardinality(EntriesOf(path)) = 1
         /\ \A k \in EntriesOf(path) :
              IF main.fileResults[k].kind = "error"
              THEN /\ main.fileResults[k].status = main.changedFiles[j].status
                   /\ RequestedOf(path) = {}
              ELSE /\ main.fileResults[k].status = "added"
                   /\ main.fileResults[k].kind = "frames"
                   /\ RequestedOf(path) = head
                   /\ Len(main.fileResults[k].frames) = Cardinality(head)

\* a renamed two-frame document without base revision, reported as added with the one
\* frame the cap allows
C19_Witness ==
  \E j \in 1..Len(main.changedFiles) :
    /\ BaseNotFoundDone(j)
    /\ main.changedFiles[j].status = "renamed"
    /\ main.maxFramesPerFile = 1
    /\ Len(DocFrames(main.changedFiles[j].path)) = 2
    /\ \E k \in EntriesOf(main.changedFiles[j].path) :
         /\ main.fileResults[k].status = "added"
         /\ Len(main.fileResults[k].frames) = 1

\* position of a path in the changed-files list
Discovered(path) ==
  CHOOSE j \in 1..Len(main.changedFiles) : main.changedFiles[j].path = path

\* C20: the entries handed to the report builder are in discovery order: their paths
\* are changed files, and an entry that comes later belongs to a file listed later.
C20_DiscoveryOrder ==
  \A j, k \in 1..Len(main.fileResults) :
    /\ \E n \in 1..Len(main.changedFiles) :
         main.changedFiles[n].path = main.fileResults[j].path
    /\ j < k => Discovered(main.fileResults[j].path) < Discovered(main.fileResults[k].path)

\* C21: with max-frames-per-file = m > 0, renderFrame is called for at most m frames
\* of any one document and no document adds more than m to the count of rendered
\* frames; with 0, every frame of a document that is rendered frame by frame is
\* requested.
C21_CapBoundsEveryDocument ==
  \A j \in 1..Len(main.changedFiles) :
    LET path == main.changedFiles[j].path
        cap == main.maxFramesPerFile
    IN IF cap > 0
       THEN /\ Cardinality(RequestedOf(path)) <= cap
            /\ main.counted[path] <= cap
       ELSE \A k \in EntriesOf(path) :
              (/\ main.fileResults[k].kind = "frames"
               /\ main.fileResults[k].status # "deleted")
              => RequestedOf(path) = Range(DocFrames(path))

C22_IncludeDeletedDecides ==
  \A j \in 1..Len(main.changedFiles) :
    (j < main.i /\ main.changedFiles[j].status = "deleted") =>
      LET entries == EntriesOf(main.changedFiles[j].path)
      IN IF main.includeDeleted
         THEN /\ Cardinality(entries) = 1
              /\ \A k \in entries : /\ main.fileResults[k].frames = << >>
                                     /\ main.fileResults[k].kind = "frames"
         ELSE entries = {}

\* C24: once the postComment call of a run has returned the id of the comment it
\* created or updated, the comment-id output of the run is that id; on the path of
\* the "no changes" report as well.
C24_CommentIdOutput ==
  (main.pc \in {"outputs", "finally", "end"} /\ main.published # 0)
  => main.commentIdOut = main.published

\* C25: in a step that issues a submit or a poll request with an OIDC token, the
\* token is younger than TOKEN_REFRESH_MS: ensureFreshToken found it so just before,
\* or replaced it; and with an API key no token is ever requested.
C25_NoStaleCredential ==
  [][\A c \in Calls :
       /\ (/\ call'[c].pc \in {"submitting", "polling"}
           /\ call'[c].pc # call[c].pc
           /\ ~apiKey)
          => tokenAge' < TOKEN_REFRESH_MS
       /\ apiKey => /\ "oidc" \notin obs'[c].reqs
                    /\ authToken' # "oidc"]_vars

\* a poll request sent with a token that was renewed in the middle of the poll loop
C25_Witness ==
  \E c \in Calls :
    /\ ~apiKey
    /\ call[c].pc = "polling"
    /\ obs[c].polls >= 2
    /\ "oidc" \in obs[c].reqs
    /\ obs[c].bearer = {"oidc"}
    /\ tokenAge = 0

\* C26: when a run that initialised its renderer has ended, cleanup() has run exactly
\* once and the cache and the set of submitted documents are empty; cleanup() never
\* runs twice, and once it has run no renderFrame call is in flight or still to come.
C26_CleanupExactlyOnce ==
  /\ cleanups <= 1
  /\ (main.pc = "end" /\ "initRenderer" \in main.log /\ main.cause # "renderer")
     => /\ cleanups = 1
        /\ "cleanup" \in main.log
        /\ phase = "cleaned"
        /\ DOMAIN cache = {}
        /\ sentFiles = {}
  /\ phase = "cleaned" => /\ main.pc = "end"
                          /\ \A c \in Calls : call[c].pc = "idle"

\* a run that rendered a frame from the cached result of its document and then
\* failed to publish its comment
C26_Witness ==
  /\ main.pc = "end"
  /\ main.thrown
  /\ main.cause = "comment"
  /\ main.rendered >= 1
  /\ cleanups = 1
  /\ DOMAIN cache = {}

\* how often an id occurs in a list
Occurrences(list, id) == Cardinality({j \in 1..Len(list) : list[j] = id})

\* C27: in the diff result of two revisions, every frame id of the base or the head
\* revision occurs exactly once in the four lists added, modified, removed and
\* unchanged taken together, and the lists hold no other id.
C27_DiffPartitions ==
  main.pc = "diffed" =>
    LET d == main.diff
        all == d.added \o d.modified \o d.removed \o d.unchanged
    IN /\ \A id \in IdsOf(main.base) \cup IdsOf(main.head) : Occurrences(all, id) = 1
       /\ Range(all) \subseteq IdsOf(main.base) \cup IdsOf(main.head)

\* base = [f1(h1), f2(h1)], head = [f1(h1), f2(h2), f3(h1)]: f3 added, f2 modified,
\* f1 unchanged, nothing removed
C27_Witness ==
  /\ main.pc = "diffed"
  /\ main.base = <<[id |-> "f1", hash |-> "h1"], [id |-> "f2", hash |-> "h1"]>>
  /\ main.head = <<[id |-> "f1", hash |-> "h1"], [id |-> "f2", hash |-> "h2"],
                   [id |-> "f3", hash |-> "h1"]>>
  /\ main.diff = [added |-> <<"f3">>, modified |-> <<"f2">>, removed |-> << >>,
                  unchanged |-> <<"f1">>]

\* positions of the root's children that carry the frame type
FramePositions(children) == {j \in 1..Len(children) : children[j].type = "frame"}

\* C28: for a document whose root has an array of children, the frames listed are
\* the root's children of type "frame", one each, in the order of the array: the
\* n-th frame listed is the n-th such child, and no node nested deeper is listed.
C28_TopLevelFramesOnly ==
  (main.pc = "processed" /\ main.content.kind = "object"
   /\ main.content.childrenKind = "array")
  => LET children == main.content.children
         P == FramePositions(children)
         frames == main.outcome.frames
     IN /\ main.outcome.kind = "frames"
        /\ Len(frames) = Cardinality(P)
        /\ \A n \in 1..Len(frames) :
             \E j \in P : /\ Cardinality({k \in P : k < j}) = n - 1
                          /\ frames[n] = children[j].id
        /\ \A n \in 1..Len(frames) : frames[n] \notin {node.id : node \in NestedNodes}

\* a group that holds a frame, followed by a frame: only the second is listed
C28_Witness ==
  /\ main.pc = "processed"
  /\ Len(main.content.children) = 2
  /\ main.content.children[1].type = "group"
  /\ main.content.children[1].children # << >>
  /\ main.content.children[1].children[1].type = "frame"
  /\ main.content.children[2] = [id |-> "f2", type |-> "frame", children |-> << >>]
  /\ main.outcome = [kind |-> "frames", frames |-> <<"f2">>]

\* C29: a file whose content is not valid JSON, or is valid JSON but not an object
\* (null, a number, a string, a boolean, an array), gives an error outcome for that
\* document, never a successful outcome with zero frames.
C29_NonObjectIsParseError ==
  (main.pc = "processed" /\ main.content.kind # "object")
  => main.outcome.kind = "error"

\* the work on the j-th changed document has begun: it is the current document of
\* the loop and past the head of the loop, or the loop has moved on
PipelineStarted(j) ==
  \/ j < main.i
  \/ j = main.i /\ main.pc \in LoopPcs \ {"files"}

\* the work on the j-th changed document has been awaited to its end
PipelineCompleted(j) == 1 <= main.i /\ j < main.i

\* C30: the work on every changed document is started before the work on any
\* document has been awaited to completion (documents that are not deleted: a
\* deleted document needs no awaited work).
C30_LaunchedTogether ==
  \A j, k \in 1..Len(main.changedFiles) :
    (/\ main.changedFiles[j].status # "deleted"
     /\ main.changedFiles[k].status # "deleted"
     /\ PipelineCompleted(j))
    => PipelineStarted(k)

\* C31: a non-success answer to a poll request ends the polling of that job at once:
\* the call that polled returns the error as its result after that one answer, with
\* no poll, submit or sleep after it and nothing cached for the document; no later
\* call for a document whose job has failed sends a request for it; and the run takes
\* the error as the result of that frame and goes on, neither failed nor aborted.
C31_PollErrorEndsPolling ==
  /\ [](\A c \in Calls :
          /\ obs[c].refused > 0 =>
                /\ obs[c].refused = 1
                /\ call[c].pc = "done"
                /\ call[c].result = "httpPoll"
                /\ call[c].path \in failed
                /\ call[c].path \notin DOMAIN cache
                /\ submits[call[c].path] = 1
          /\ InFlight(c) /\ call[c].path \in failed => call[c].pc = "done")
  /\ [][(call[1].pc = "done" /\ call[1].result = "httpPoll" /\ call'[1].pc = "idle")
          => /\ ~main'.thrown
             /\ ~main'.setFailed
             /\ main'.pc \in {"render", "files"}
             /\ File(main).path \in main'.errs
             /\ main'.rendered = main.rendered]_vars

\* the second poll request of a job was refused: the call has ended with the error
\* and the run is about to take it as the result of the frame
C31_Witness ==
  /\ main.pc = "rendering"
  /\ call[1].pc = "done"
  /\ call[1].result = "httpPoll"
  /\ obs[1].refused = 1
  /\ obs[1].polls = 2
  /\ call[1].path \notin DOMAIN cache
  /\ ~main.setFailed

\* ------------------------------------------------------------ the comment search: properties

\* the marker a postComment call searches for
MarkerOf(r) == GetCommentMarker(run[r].commentId)

\* C32: findExistingComment returns the id of the first comment, in listing order
\* over all pages, whose body contains the marker, and no id when no comment contains
\* it; a comment without a body never matches, and the search never ends in an error.
C32_FirstMatchInOrder ==
  \A r \in Runs :
    /\ run[r].pc # "thrown"
    /\ run[r].pc = "updating" =>
         \E i \in 1..Len(comments) :
           /\ "body" \in DOMAIN comments[i]
           /\ MarkerOf(r) \in comments[i].body.markers
           /\ run[r].target = comments[i].id
           /\ \A j \in 1..(i - 1) :
                "body" \in DOMAIN comments[j] => MarkerOf(r) \notin comments[j].body.markers
    /\ (run[r].pc = "creating" /\ ~hist.listFailed) =>
         \A i \in 1..Len(comments) :
           "body" \in DOMAIN comments[i] => MarkerOf(r) \notin comments[i].body.markers

\* the match is the first comment of the second page; the first comment of the pull
\* request has no body and a later comment carries the marker too
C32_Witness ==
  /\ run[1].pc = "updating"
  /\ run[1].target = perPage + 1
  /\ "body" \notin DOMAIN comments[1]
  /\ Len(comments) > perPage + 1

\* comments before page number page that carry the marker
MarkedBefore(r, page) ==
  {i \in Marked(MarkerOf(r)) : i <= (page - 1) * perPage}

\* C33: the comment search ends, whatever the number of comments, exact multiples of
\* the page size included: pages are requested one after the other from page 1, a
\* page is requested only when every page before it was full and held no match, and
\* every search in progress comes to its end.
C33_SearchTerminates ==
  /\ [](\A r \in Runs :
          run[r].pc = "listing" =>
            /\ run[r].page >= 1
            /\ (run[r].page - 1) * perPage <= Len(comments)
            /\ MarkedBefore(r, run[r].page) = {})
  /\ [][\A r \in Runs :
          /\ (run[r].pc = "idle" /\ run'[r].pc = "listing") => run'[r].page = 1
          /\ (run[r].pc = "listing" /\ run'[r].pc = "listing")
               => run'[r].page = run[r].page + 1]_vars
  /\ \A r \in Runs : (run[r].pc = "listing") ~> (run[r].pc # "listing")

\* the pull request holds an exact multiple of the page size, none a report of the
\* namespace searched: after the last full page one more page was requested, and the
\* search has ended without a match
C33_Witness ==
  /\ Len(comments) = MaxPages * perPage
  /\ run[1].pc = "creating"
  /\ run[1].page = MaxPages + 1
  /\ ~hist.listFailed
  /\ Marked(MarkerOf(1)) = {}

\* ------------------------------------------------------------ the review mode: properties

\* the run asked for diff review with a renderer other than the service
FallBack == main.reviewMode = "diff" /\ ~main.service

\* a changed document that is not deleted and whose processing is over
ProcessedDoc(j) == j < main.i /\ main.changedFiles[j].status # "deleted"

\* C34 (as stated): a run in review mode "diff" whose renderer is not the service
\* falls back to full mode, where every frame of every changed document that is not
\* deleted is processed and no base revision is fetched; and every run that found
\* changed documents executes exactly one of runDiffMode and runFullMode.
C34_FallBackEveryFrame ==
  /\ FallBack =>
       /\ "baseFetch" \notin main.log
       /\ \A j \in 1..Len(main.changedFiles) :
            ProcessedDoc(j) =>
              RequestedOf(main.changedFiles[j].path) =
                Range(DocFrames(main.changedFiles[j].path))
  /\ main.changedFiles # << >> =>
       Cardinality(main.log \cap {"runDiffMode", "runFullMode"}) = 1

\* C34 (amended): runDiffMode is executed only in review mode "diff" with the service
\* renderer; a run in review mode "diff" with another renderer warns and executes
\* runFullMode: no base revision is fetched and no diff requested, and each changed
\* document that is not deleted has one entry, with its frames requested for render
\* (the first max-frames-per-file of them when that cap is positive) or, when it
\* fails to load, an error entry and no frame requested. A run that found changed
\* documents executes exactly one of the two, a run that found none executes neither.
C34_FallBackToFullMode ==
  /\ "runDiffMode" \in main.log <=>
       (main.reviewMode = "diff" /\ main.service /\ main.changedFiles # << >>)
  /\ "runFullMode" \in main.log <=>
       (~(main.reviewMode = "diff" /\ main.service) /\ main.changedFiles # << >>)
  /\ "fallback" \in main.log <=> (FallBack /\ main.changedFiles # << >>)
  /\ main.changedFiles = << >> => main.pc \notin LoopPcs \cup {"initRenderer", "upload"}
  /\ FallBack =>
       /\ main.log \cap {"baseFetch", "diff", "runDiffMode"} = {}
       /\ main.diffed = {}
       /\ main.notFound = {}
       /\ \A j \in 1..Len(main.changedFiles) :
            ProcessedDoc(j) =>
              LET path == main.changedFiles[j].path
              IN /\ Cardinality(EntriesOf(path)) = 1
                 /\ \A k \in EntriesOf(path) :
                      IF main.fileResults[k].kind = "error"
                      THEN RequestedOf(path) = {}
                      ELSE /\ main.fileResults[k].kind = "frames"
                           /\ RequestedOf(path) =
                                Range(FramesToProcess(DocFrames(path),
                                                      main.maxFramesPerFile))

\* a run that fell back to full mode has ended: its modified two-frame document had
\* both frames requested for render, with no base revision fetched
C34_Witness ==
  /\ FallBack
  /\ main.pc = "end"
  /\ ~main.setFailed
  /\ "fallback" \in main.log
  /\ "baseFetch" \notin main.log
  /\ \E j \in 1..Len(main.changedFiles) :
       /\ main.changedFiles[j].status = "modified"
       /\ Cardinality(RequestedOf(main.changedFiles[j].path)) = 2

\* ------------------------------------------------------------ the renderer: more properties

\* C35: when the service answers "completed" without a result, pollForCompletion
\* raises an error instead of returning: the call ends with that error as its result,
\* the document gets no cache entry, and no call for a frame of a document whose job
\* has failed downloads an image or returns success.
C35_CompletedWithoutResult ==
  /\ \A c \in Calls :
       /\ obs[c].empty =>
            /\ call[c].pc = "done"
            /\ call[c].result = "noResult"
            /\ "image" \notin obs[c].reqs
            /\ call[c].path \in failed
       /\ (InFlight(c) /\ call[c].path \in failed) =>
            /\ call[c].pc # "downloading"
            /\ call[c].result \in {"-", "notFound", "noResult", "httpPoll", "httpSubmit",
                                   "network", "jobFailed", "timeout", "oidc", "readFile"}
            /\ call[c].result = "-" => call[c].pc # "done"
  /\ \A p \in failed : p \notin DOMAIN cache /\ p \in sentFiles

\* after a document was rendered from its cached result, the job of another document
\* was reported completed without a result on its second poll
C35_Witness ==
  \E c \in Calls :
    /\ obs[c].empty
    /\ obs[c].polls = 2
    /\ call[c].pc = "done"
    /\ call[c].result = "noResult"
    /\ DOMAIN cache # {}
    /\ call[c].path \notin DOMAIN cache

\* C36: when two renderFrame calls for frames of one document are in flight together,
\* one job is submitted, and no call has returned "not found in API response" for a
\* frame that the completed result of that job contains.
C36_ConcurrentCallsShareJob ==
  /\ \A p \in Paths : submits[p] <= 1
  /\ \A c \in Calls :
       (call[c].pc = "done" /\ call[c].result = "notFound")
         => ~Cached(call[c].path, call[c].frame)

\* C37: after a successful initialize, whatever sequence of renderFrame and cleanup
\* calls follows, every submit and every poll request carries a defined bearer
\* credential, also in a renderFrame call made after cleanup.
C37_BearerDefined ==
  \A c \in Calls : "undefined" \notin obs[c].bearer

\* C38: every changed document has at most one entry in the results the report is
\* built from, a successful one or an error entry, in full mode and in diff mode,
\* also when an error is raised after its diff result has come back.
C38_OneOutcomePerDocument ==
  \A p \in Paths : Cardinality(EntriesOf(p)) <= 1

\* ------------------------------------------------------------ PR comments: more properties

\* C39: in "update" mode a failed listing of the comments is swallowed: the search
\* reports no match, postComment goes on to create a new comment and returns the id
\* of that comment; the failed listing itself never makes postComment throw (only a
\* failed createComment request does).
C39_ListFailureCreates ==
  /\ [](\A r \in Runs :
          run[r].listFailed =>
            /\ run[r].mode = "update"
            /\ run[r].target = 0
            /\ run[r].pc \in {"creating", "done", "thrown"}
            /\ run[r].pc = "done" =>
                 /\ run[r].created
                 /\ \E i \in 1..Len(comments) :
                      /\ comments[i].id = run[r].ret
                      /\ MarkerOf(r) \in comments[i].body.markers)
  /\ [][\A r \in Runs :
          /\ (~run[r].listFailed /\ run'[r].listFailed) => run'[r].pc = "creating"
          /\ (run[r].listFailed /\ run'[r].pc = "thrown") =>
               run[r].pc \in {"creating", "thrown"}]_vars

\* a report of the namespace was there, the listing failed, and postComment has
\* returned the id of the comment it created
C39_Witness ==
  \E r \in Runs :
    /\ run[r].listFailed
    /\ run[r].markedAtStart
    /\ run[r].pc = "done"
    /\ run[r].created
    /\ run[r].ret = comments[Len(comments)].id

====
